---- MODULE Spec2Model ----
(***************************************************************************)
(* Sales-Pulse: the inventory ledger, its producers (sell-in capture, SOH  *)
(* snapshot upload, sell-out approval) and the derived-state algorithms    *)
(* (anchored balance, FIFO aging).                                         *)
(*                                                                         *)
(* The relational store is modelled as a record of tables; one handler is  *)
(* one action, computed as a function from the committed store to the      *)
(* committed store (flush, commit and rollback included).                  *)
(***************************************************************************)
EXTENDS Integers, Sequences, FiniteSets, TLC

\* ------------------------------------------------------------------ bounds
MaxDate    == 3      \* DocDate / SOHDate range 1..MaxDate
MaxUploads == 2      \* sell-out upload headers ever created
MaxLedger  == 4      \* ledger rows ever inserted (LedgerID counter cap)
MaxSoh     == 2      \* SOH upload headers ever created
MaxLedgerSoh     == 1  \* ... in SpecLedger
MaxSohOnly       == 4  \* ... in SpecSoh
MaxLedgerUploads == 1  \* sell-out uploads in SpecLedger

Customers == {1}
SKUs      == {1, 2}
Dates     == 1..MaxDate
UploadIds == 1..MaxUploads
NoUpload  == 0       \* SQL NULL in SP_InventoryLedger.UploadID

\* ------------------------------------------------------------------ state
\* models.py:54-55: one Session object, `model`, is shared by every handler of
\* the process (autoflush=False, expire_on_commit=False).  What a handler
\* writes and does not commit stays in the session's open transaction: later
\* handlers read it, the next commit makes it durable, the next rollback
\* discards it.  uploads/details are the session's view; cUploads/cDetails
\* are what has been committed.  Every other table is only written by handlers
\* that end in commit or rollback, so one copy is kept.
VARIABLES
    uploads,    \* SP_SellOutUploads as the session sees it: UploadID -> header
    details,    \* SP_MCSI_SellOut rows as the session sees them
    cUploads,   \* SP_SellOutUploads, committed
    cDetails,   \* SP_MCSI_SellOut, committed
    nextUid,    \* the UploadID identity counter
    ledger,     \* SP_InventoryLedger rows (a set; LedgerID is a field)
    nextLid,    \* the LedgerID identity counter
    sellin,     \* SP_MCSI_SellIn rows (captured)
    sohHdr,     \* SP_SOH_Uploads: SOHUploadID -> header
    sohDet,     \* SP_SOH_Detail rows
    last,       \* the response of the last request
    conc,       \* the interleaved requests (SpecConc, SpecTags)
    preview,    \* SP_SellOutNegPreview rows, and the uploads flagged
                \* HasPotentialNegatives
    cust        \* SP_Customer.StatusID and SP_CustomerStatusTag per customer,
                \* the status thresholds of SP_GlobalConfig, and today's date

vars == <<uploads, details, cUploads, cDetails, nextUid, ledger, nextLid,
          sellin, sohHdr, sohDet, last, conc, preview, cust>>

\* win: the date window a manual sell-in request named
NoResp == [op |-> "none", ids |-> <<>>, posted |-> {}, skipped |-> {}, failed |-> {},
           win |-> <<>>]

\* ------------------------------------------------------------- generic helpers
RECURSIVE SumQty(_)
\* SQL COALESCE(SUM(Qty), 0) over a set of ledger rows
SumQty(rows) ==
    IF rows = {} THEN 0
    ELSE LET r == CHOOSE x \in rows : TRUE
         IN r.qty + SumQty(rows \ {r})

Abs(x) == IF x < 0 THEN -x ELSE x

\* SQL MAX over a set of integers; 0 stands for NULL (no row)
MaxOf(S) == IF S = {} THEN 0 ELSE CHOOSE m \in S : \A x \in S : x <= m
\* SQL MIN over a set of integers; 0 stands for NULL (no row)
MinOf(S) == IF S = {} THEN 0 ELSE CHOOSE m \in S : \A x \in S : m <= x

\* ------------------------------------------------------------- the ledger key
\* f"SO_APPROVE:{upload.UploadID}:{d.RowNumber}"
SoKey(u, row) == [kind |-> "SO_APPROVE", a |-> u, b |-> row, c |-> 0, d |-> 0, ret |-> FALSE]

\* The columns of the unique index UX_InvLedger_Idempotent
IdemTuple(r) == <<r.cust, r.sku, r.date, r.mtype, r.key, r.upload>>

\* (variant: no unique index)
UniqueOff(old, new) == TRUE

\* A flush of `new` rows into `old` passes the unique index iff no two rows
\* of the result share the indexed columns (SQL Server compares NULL UploadID
\* values as equal in a unique index).
UniqueOk(old, new) ==
    \A r1 \in new : \A r2 \in old \cup new : IdemTuple(r1) = IdemTuple(r2) => r1 = r2

\* ------------------------------------------------------ sell-out upload (file)
\* One parsed file: its lines, RowNumber = position in the file.  SellOutQty
\* is validated as a non-negative whole number.
Line(sku, date, qty) == [sku |-> sku, date |-> date, qty |-> qty]
Files == { << Line(1, 1, 1) >>, << Line(1, 1, 2), Line(1, 2, 1) >> }

FileDates(f) == { f[i].date : i \in DOMAIN f }

\* "SELL-IN / SOH HISTORY CHECK": every SKU of the file has a captured
\* sell-in row of the customer or an SOH detail row of the customer.
HasHistory(c, sku) ==
    \/ \E r \in sellin : r.soldto = c /\ r.article = sku
    \/ \E d \in sohDet : d.sku = sku /\ sohHdr[d.hdr].cust = c

\* upload(): header in Draft, overlapping prior headers of the same customer
\* linked (and superseded when Draft/Rejected), prior details of those headers
\* in the period window deactivated, new details inserted active.  The writes
\* run in a SAVEPOINT of the session's open transaction (_begin_tx) and the
\* handler returns without commit.
UploadSellOut(c, f) ==
    LET ps  == MinOf(FileDates(f))
        pe  == MaxOf(FileDates(f))
        new == nextUid
        hdrIds == { h \in DOMAIN uploads : uploads[h].cust = c }
        prior  == { h \in hdrIds : uploads[h].ps <= pe /\ uploads[h].pe >= ps }
    IN  /\ nextUid <= MaxUploads
        /\ \A i \in DOMAIN f : HasHistory(c, f[i].sku)
        /\ nextUid' = nextUid + 1
        /\ uploads' = [ h \in DOMAIN uploads \cup {new} |->
               IF h = new
               THEN [cust |-> c, ps |-> ps, pe |-> pe, status |-> "Draft", sup |-> 0]
               ELSE IF h \in prior
                    THEN [uploads[h] EXCEPT
                            !.sup = new,
                            !.status = IF @ \in {"Draft", "Rejected"}
                                       THEN "Superseded" ELSE @]
                    ELSE uploads[h] ]
        /\ details' =
               { IF d.upload \in hdrIds /\ d.date >= ps /\ d.date <= pe
                 THEN [d EXCEPT !.active = FALSE] ELSE d : d \in details }
               \cup
               { [upload |-> new, sku |-> f[i].sku, row |-> i, date |-> f[i].date,
                  qty |-> f[i].qty, active |-> TRUE] : i \in DOMAIN f }
        /\ last' = [NoResp EXCEPT !.op = "upload", !.posted = {new}]
        /\ UNCHANGED <<cUploads, cDetails, ledger, nextLid, sellin, sohHdr, sohDet, conc, preview, cust>>

\* ------------------------------------------------- the session's transaction
\* The part of the store a sell-out handler reads and writes.
Store == [uploads |-> uploads, details |-> details,
          cUploads |-> cUploads, cDetails |-> cDetails,
          ledger |-> ledger, nextLid |-> nextLid]

\* model.commit(): what the session holds becomes the committed state.
Commit(S) == [S EXCEPT !.cUploads = S.uploads, !.cDetails = S.details]

\* model.rollback() of a transaction that started at T: every table is back
\* at its committed state, uncommitted writes of earlier handlers included.
Rollback(T) == [T EXCEPT !.uploads = T.cUploads, !.details = T.cDetails]

\* _tx(): commit when the block ends normally (a `continue` included),
\* rollback when it raises.
TxEnd(T, S, raised) == IF raised THEN Rollback(T) ELSE Commit(S)

\* --------------------------------------------------------- sell-out approval
\* (variant: the claim without its Status = 'Draft' filter)
ClaimUnfiltered(S, u) == 1

\* The claim: UPDATE ... SET Status='Posting' WHERE UploadID=:u AND Status='Draft'
ClaimAffected(S, u) == IF S.uploads[u].status = "Draft" THEN 1 ELSE 0

\* (variant: the lost claim is not noticed)
ClaimNeverLost(affected) == FALSE

\* `if affected != 1:` the claim was lost, the upload is skipped
ClaimLost(affected) == affected # 1

ActiveDetails(S, u) == { d \in S.details : d.upload = u /\ d.active }

\* ORDER BY SKU_ID, DocumentDate, RowNumber
DetailBefore(d1, d2) ==
    \/ d1.sku < d2.sku
    \/ d1.sku = d2.sku /\ d1.date < d2.date
    \/ d1.sku = d2.sku /\ d1.date = d2.date /\ d1.row < d2.row

\* position (1-based) of a detail line in the ordered result
DetailRank(ds, d) == 1 + Cardinality({ x \in ds : DetailBefore(x, d) })

\* The SELLOUT row of one detail line
SelloutRow(S, u, ds, d) ==
    [id |-> S.nextLid + DetailRank(ds, d) - 1,
     cust |-> S.uploads[u].cust, sku |-> d.sku, date |-> d.date,
     mtype |-> "SELLOUT", sub |-> "", qty |-> -d.qty, upload |-> u,
     ref |-> "SP_SellOutUploads", key |-> SoKey(u, d.row)]

\* _post_sellout_running(upload, actor, comment) on the session state S, where
\* mem is upload.Status as the loaded object holds it (the bulk claim does not
\* synchronize the object).  Returns the session state with the pending rows
\* and the header change, or raised.
PostSelloutRunning(S, u, mem) ==
    LET ds == ActiveDetails(S, u)
    IN  IF mem = "Posted" \/ ds = {}
        THEN [raised |-> TRUE, S |-> S]
        ELSE [raised |-> FALSE,
              S |-> [S EXCEPT
                       !.ledger  = @ \cup { SelloutRow(S, u, ds, d) : d \in ds },
                       !.nextLid = @ + Cardinality(ds),
                       !.uploads[u].status = "Posted"]]

\* One iteration of approve_uploads' loop over ids, from session state T.
\* actorOk: the request's actor converts to a SP_Users.UserID (ApprovedBy and
\* SP_SellOutApproval.Actor are Integer columns; the default "approver" is not).
\* The flush at commit fails on a non-numeric actor or on the unique index.
ApproveOne(T, u, actorOk) ==
    IF u \notin DOMAIN T.uploads
    THEN [S |-> Rollback(T), res |-> "failed"]                       \* abort(404)
    ELSE
    LET mem      == T.uploads[u].status
        affected == ClaimAffected(T, u)
        claimed  == [T EXCEPT !.uploads[u].status = "Posting"]
        post     == PostSelloutRunning(claimed, u, mem)
        flushOk  == actorOk /\ UniqueOk(T.ledger, post.S.ledger \ T.ledger)
    IN  IF ClaimLost(affected)
        THEN [S |-> TxEnd(T, T, FALSE), res |-> "skipped"]
        ELSE IF post.raised
             THEN [S |-> TxEnd(T, post.S, TRUE), res |-> "failed"]
             ELSE IF ~flushOk                      \* posted.append ran before the commit
                  THEN [S |-> TxEnd(T, post.S, TRUE), res |-> "posted_failed"]
                  ELSE [S |-> TxEnd(T, post.S, FALSE), res |-> "posted"]

RECURSIVE ApproveLoop(_, _, _, _)
\* for upload_id in ids: ...   (resp accumulates posted/skipped/failed)
ApproveLoop(T, ids, actorOk, resp) ==
    IF ids = <<>> THEN [S |-> T, resp |-> resp]
    ELSE LET u == Head(ids)
             r == ApproveOne(T, u, actorOk)
             resp2 == CASE r.res = "posted"  -> [resp EXCEPT !.posted  = @ \cup {u}]
                        [] r.res = "skipped" -> [resp EXCEPT !.skipped = @ \cup {u}]
                        [] r.res = "posted_failed" ->
                              [resp EXCEPT !.posted = @ \cup {u}, !.failed = @ \cup {u}]
                        [] OTHER             -> [resp EXCEPT !.failed  = @ \cup {u}]
         IN ApproveLoop(r.S, Tail(ids), actorOk, resp2)

IdLists == { <<a>> : a \in UploadIds } \cup { <<a, b>> : a, b \in UploadIds }

\* Install the session state a sell-out handler ended with.
Install(S) ==
    /\ uploads' = S.uploads /\ details' = S.details
    /\ cUploads' = S.cUploads /\ cDetails' = S.cDetails
    /\ ledger' = S.ledger /\ nextLid' = S.nextLid

\* POST /approvals/approve
ApproveUploads(ids, actorOk) ==
    LET r == ApproveLoop(Store, ids, actorOk, [NoResp EXCEPT !.op = "approve", !.ids = ids])
    IN  /\ r.S.nextLid <= MaxLedger + 1
        /\ Install(r.S)
        /\ last' = r.resp
        /\ UNCHANGED <<nextUid, sellin, sohHdr, sohDet, conc, preview, cust>>

\* ------------------------------------------------------------ reject / submit
RECURSIVE RejectLoop(_, _)
\* the loop of reject_uploads inside its single _tx(): returns the session
\* state, whether a 404 was raised, and the uploads an approval row is
\* pending for
RejectLoop(S, ids) ==
    IF ids = <<>> THEN [S |-> S, raised |-> FALSE, touched |-> {}]
    ELSE LET u == Head(ids)
         IN IF u \notin DOMAIN S.uploads
            THEN [S |-> S, raised |-> TRUE, touched |-> {}]
            ELSE LET S2 == IF S.uploads[u].status # "Draft" THEN S
                           ELSE [S EXCEPT !.uploads[u].status = "Rejected"]
                     r  == RejectLoop(S2, Tail(ids))
                 IN [r EXCEPT !.touched =
                        IF S.uploads[u].status = "Draft" THEN @ \cup {u} ELSE @]

\* POST /approvals/reject
RejectUploads(ids, actorOk) ==
    LET r      == RejectLoop(Store, ids)
        raised == r.raised \/ (r.touched # {} /\ ~actorOk)
        S      == TxEnd(Store, r.S, raised)
    IN  /\ Install(S)
        /\ last' = [NoResp EXCEPT !.op = "reject", !.ids = ids,
                      !.posted = IF raised THEN {} ELSE r.touched,
                      !.failed = IF raised THEN { ids[i] : i \in DOMAIN ids } ELSE {}]
        /\ UNCHANGED <<nextUid, sellin, sohHdr, sohDet, conc, preview, cust>>

\* One iteration of submit_bulk's loop: not found and not-submittable uploads
\* end the iteration without commit or rollback.
SubmitOne(T, u, actorOk) ==
    IF u \notin DOMAIN T.uploads THEN [S |-> T, res |-> "failed"]
    ELSE IF T.uploads[u].status \notin {"Draft", "Rejected"}
         THEN [S |-> T, res |-> "skipped"]
         ELSE LET S2 == [T EXCEPT !.uploads[u].status = "Draft"]
              IN IF actorOk THEN [S |-> Commit(S2), res |-> "posted"]
                 ELSE [S |-> Rollback(T), res |-> "failed"]

RECURSIVE SubmitLoop(_, _, _, _)
SubmitLoop(T, ids, actorOk, resp) ==
    IF ids = <<>> THEN [S |-> T, resp |-> resp]
    ELSE LET u == Head(ids)
             r == SubmitOne(T, u, actorOk)
             resp2 == CASE r.res = "posted"  -> [resp EXCEPT !.posted  = @ \cup {u}]
                        [] r.res = "skipped" -> [resp EXCEPT !.skipped = @ \cup {u}]
                        [] OTHER             -> [resp EXCEPT !.failed  = @ \cup {u}]
         IN SubmitLoop(r.S, Tail(ids), actorOk, resp2)

\* POST /approvals/submit-bulk
SubmitBulk(ids, actorOk) ==
    LET r == SubmitLoop(Store, ids, actorOk, [NoResp EXCEPT !.op = "submit", !.ids = ids])
    IN  /\ Install(r.S)
        /\ last' = r.resp
        /\ UNCHANGED <<nextUid, sellin, sohHdr, sohDet, conc, preview, cust>>

\* -------------------------------------------------------------- sell-in capture
\* RTOS_MCSI, the external source table.  Rows 1 and 2 are two deliveries of
\* one billing document of one article on one day (they differ in CreatedAt,
\* so both fit the primary key (Article, BillingDocument, CreatedAt) of
\* SP_MCSI_SellIn), row 2 carries a return; row 3 is a later document.
SrcRow(rid, art, doc, c, date, created, gross, ret) ==
    [rid |-> rid, article |-> art, doc |-> doc, soldto |-> c, date |-> date,
     created |-> created, gross |-> gross, ret |-> ret]

RTOS == { SrcRow(1, 1, 1, 1, 1, 1, 2, 0),
          SrcRow(2, 1, 1, 1, 1, 2, 1, 1),
          SrcRow(3, 1, 2, 1, 2, 2, 1, 0) }

SellInPk(r) == <<r.article, r.doc, r.created>>

\* _resolve_customer_id / _resolve_sku_id: SoldToParty -> CustomerID and
\* Article -> SKU_ID; 0 when there is no master row.
ResolveCustomerId(soldto) == IF soldto \in Customers THEN soldto ELSE 0
ResolveSkuId(article)     == IF article \in SKUs THEN article ELSE 0

\* _idempotency_key_for_si: f"SI:{article}:{billing_doc}:{sold_to}:{dd}", ":RET" appended
\* for the return row
SiKey(si, isRet) ==
    [kind |-> "SI", a |-> si.article, b |-> si.doc, c |-> si.soldto, d |-> si.date, ret |-> isRet]

\* filter(IdempotencyKey == idem).first() is not None
KeyExists(led, k) == \E r \in led : r.key = k

SiLedgerRow(lid, si, qty, sub, isRet) ==
    [id |-> lid, cust |-> ResolveCustomerId(si.soldto), sku |-> ResolveSkuId(si.article),
     date |-> si.date, mtype |-> "SELLIN", sub |-> sub, qty |-> qty,
     upload |-> NoUpload, ref |-> "SP_MCSI_SellIn", key |-> SiKey(si, isRet)]

\* _ensure_ledger_for_si_row(si): the rows it adds to the session, as a
\* sequence (main SELLIN first, then the return).  The existence queries see
\* the flushed ledger `led` only: autoflush is off, so rows added earlier in
\* the same run are not seen.
EnsureLedgerForSiRow(led, si, lid) ==
    IF ResolveCustomerId(si.soldto) = 0 \/ ResolveSkuId(si.article) = 0 THEN <<>>
    ELSE
    LET main == IF si.gross > 0 /\ ~KeyExists(led, SiKey(si, FALSE))
                THEN << SiLedgerRow(lid, si, si.gross, "", FALSE) >> ELSE <<>>
        retQ == IF si.ret < 0 THEN si.ret ELSE -si.ret
        retn == IF si.ret # 0 /\ ~KeyExists(led, SiKey(si, TRUE))
                THEN << SiLedgerRow(lid + Len(main), si, retQ, "RETURN", TRUE) >> ELSE <<>>
    IN main \o retn

RECURSIVE EnsureAll(_, _, _)
\* for si in rows: _ensure_ledger_for_si_row(si)
EnsureAll(led, rows, lid) ==
    IF rows = <<>> THEN <<>>
    ELSE LET first == EnsureLedgerForSiRow(led, Head(rows), lid)
         IN first \o EnsureAll(led, Tail(rows), lid + Len(first))

SeqToSet(q) == { q[i] : i \in DOMAIN q }

RECURSIVE OrderRows(_, _)
\* the rows of a query result as a sequence; byDate: ORDER BY DocumentDate
OrderRows(rows, byDate) ==
    IF rows = {} THEN <<>>
    ELSE LET r == CHOOSE x \in rows : \A y \in rows :
                     IF byDate /\ x.date # y.date THEN x.date < y.date ELSE x.rid <= y.rid
         IN <<r>> \o OrderRows(rows \ {r}, byDate)

\* _safe_commit() after the ledger loop: the flush inserts the pending rows,
\* a unique-index violation rolls the whole transaction back.
LedgerAfterCommit(led, pending) ==
    IF UniqueOk(led, SeqToSet(pending)) THEN led \cup SeqToSet(pending) ELSE led

\* capture_filtered_sellin(filters, from_date, to_date, also_write_ledger=True)
\* on sell-in table si0 and ledger led0; rows: the RTOS rows the filters and
\* the date window select.  First _safe_commit: the captured rows, all or
\* none (primary key); second: the ledger rows, all or none.
CaptureFilteredSellin(si0, led0, lid0, rows) ==
    LET pkOk    == \A r \in rows : \A q \in si0 \cup rows : SellInPk(r) = SellInPk(q) => r = q
        si1     == IF pkOk THEN si0 \cup rows ELSE si0
        pending == EnsureAll(led0, OrderRows(rows, FALSE), lid0)
        led1    == LedgerAfterCommit(led0, pending)
    IN [sellin |-> si1, ledger |-> led1,
        nextLid |-> IF led1 = led0 THEN lid0 ELSE lid0 + Len(pending),
        ok1 |-> pkOk, ok2 |-> UniqueOk(led0, SeqToSet(pending))]

InWindow(d, start, end) == d >= start /\ d <= end

\* (variant: the delete without its MovementType and RefTable filters)
AnyLedgerInWindow(led, start, end) == { r \in led : InWindow(r.date, start, end) }

\* The SELLIN rows the manual endpoints delete for a window
SellinLedgerInWindow(led, start, end) ==
    { r \in led : r.mtype = "SELLIN" /\ r.ref = "SP_MCSI_SellIn" /\ InWindow(r.date, start, end) }

\* What a handler's first commit or rollback does to the sell-out tables the
\* session holds (a later commit or rollback of the same handler finds nothing
\* uncommitted in them).
SessionEnd(committed) ==
    IF committed
    THEN /\ cUploads' = uploads /\ cDetails' = details /\ UNCHANGED <<uploads, details>>
    ELSE /\ uploads' = cUploads /\ details' = cDetails /\ UNCHANGED <<cUploads, cDetails>>

\* The scheduler's job: capture_filtered_sellin(get_user_filters())
CaptureScheduled(sel) ==
    LET r == CaptureFilteredSellin(sellin, ledger, nextLid, sel)
    IN  /\ r.nextLid <= MaxLedger + 1
        /\ sellin' = r.sellin /\ ledger' = r.ledger /\ nextLid' = r.nextLid
        /\ SessionEnd(r.ok1)
        /\ last' = [NoResp EXCEPT !.op = "capture",
                      !.failed = IF r.ok2 THEN {} ELSE {0}]
        /\ UNCHANGED <<nextUid, sohHdr, sohDet, conc, preview, cust>>

\* POST /capture-now: clean slate for the window, then re-capture
CaptureNow(sel, start, end) ==
    LET si0 == { r \in sellin : ~InWindow(r.date, start, end) }
        led0 == ledger \ SellinLedgerInWindow(ledger, start, end)
        rows == { r \in sel : InWindow(r.date, start, end) }
        r == CaptureFilteredSellin(si0, led0, nextLid, rows)
    IN  /\ r.nextLid <= MaxLedger + 1
        /\ sellin' = r.sellin /\ ledger' = r.ledger /\ nextLid' = r.nextLid
        /\ SessionEnd(TRUE)
        /\ last' = [NoResp EXCEPT !.op = "capture_now", !.win = <<start, end>>,
                      !.failed = IF r.ok2 THEN {} ELSE {0}]
        /\ UNCHANGED <<nextUid, sohHdr, sohDet, conc, preview, cust>>

\* POST /delete-sellin
DeleteSellin(start, end) ==
    /\ sellin' = { r \in sellin : ~InWindow(r.date, start, end) }
    /\ ledger' = ledger \ SellinLedgerInWindow(ledger, start, end)
    /\ SessionEnd(TRUE)
    /\ last' = [NoResp EXCEPT !.op = "delete_sellin", !.win = <<start, end>>]
    /\ UNCHANGED <<nextUid, nextLid, sohHdr, sohDet, conc, preview, cust>>

\* POST /backfill-ledger
BackfillLedger(start, end) ==
    LET rows    == { r \in sellin : InWindow(r.date, start, end) }
        pending == EnsureAll(ledger, OrderRows(rows, TRUE), nextLid)
        ok      == UniqueOk(ledger, SeqToSet(pending))
    IN  /\ nextLid + Len(pending) <= MaxLedger + 1
        /\ ledger' = LedgerAfterCommit(ledger, pending)
        /\ nextLid' = IF ok THEN nextLid + Len(pending) ELSE nextLid
        /\ SessionEnd(ok)
        /\ last' = [NoResp EXCEPT !.op = "backfill", !.win = <<start, end>>,
                      !.failed = IF ok THEN {} ELSE {0}]
        /\ UNCHANGED <<nextUid, sellin, sohHdr, sohDet, conc, preview, cust>>

\* ------------------------------------------------------------ SOH snapshot upload
BrandOf(sku) == "A"

SohRow(sku, qty) == [sku |-> sku, qty |-> qty]
\* the parsed files (RowNumber = position); SOHQty is validated as a
\* non-negative whole number.  The last file lists SKU 1 twice.
SohFiles == { << SohRow(1, 2) >>, << SohRow(2, 3) >>,
              << SohRow(1, 3), SohRow(2, 2) >>, << SohRow(1, 2), SohRow(1, 3) >> }

SohKey(mtype, hdr, row) ==
    [kind |-> "SOH_" \o mtype, a |-> hdr, b |-> row, c |-> 0, d |-> 0, ret |-> FALSE]

\* _get_prior_active_qty_for_day(customer, brand, sku, date) over the flushed
\* detail rows det: the active row of the latest header, 0.0 when none
GetPriorActiveQtyForDay(hdrs, det, c, brand, sku, date) ==
    LET rows == { d \in det : /\ hdrs[d.hdr].cust = c /\ hdrs[d.hdr].brand = brand
                              /\ d.sku = sku /\ d.date = date /\ d.active }
    IN  IF rows = {} THEN 0
        ELSE (CHOOSE d \in rows : \A e \in rows : e.hdr <= d.hdr).qty

\* _post_ledger_adjust: the snapshot delta row
PostLedgerAdjust(lid, c, sku, date, newQty, oldQty, hdr, row, mtype) ==
    [id |-> lid, cust |-> c, sku |-> sku, date |-> date, mtype |-> mtype, sub |-> "",
     qty |-> newQty - oldQty, upload |-> NoUpload, ref |-> "SP_SOH_Uploads",
     key |-> SohKey(mtype, hdr, row)]

\* "initial" => ADJUST, anything else => SUPERCEED
SohMovementType(stype) == IF stype = "Initial" THEN "ADJUST" ELSE "SUPERCEED"

\* POST /soh/upload for one customer, date, snapshot type and file (one brand
\* per file here, so one header): 2a deactivate the active details of the
\* prior headers of (customer, brand, date); 2b new header, prior headers
\* Superseded; 2c one detail and one ledger delta row per file row, the prior
\* quantity read after the deactivation and before the new details are added.
SohUploadBody(c, date, stype, f) ==
    LET brand   == BrandOf(f[1].sku)
        new     == Len(sohHdr) + 1
        prior   == { h \in DOMAIN sohHdr : /\ sohHdr[h].cust = c /\ sohHdr[h].date = date
                                           /\ sohHdr[h].brand = brand }
        det1    == { IF d.hdr \in prior /\ d.date = date /\ d.active
                     THEN [d EXCEPT !.active = FALSE] ELSE d : d \in sohDet }
        mtype   == SohMovementType(stype)
        oldQty(i) == GetPriorActiveQtyForDay(sohHdr, det1, c, brand, f[i].sku, date)
    IN  /\ nextLid + Len(f) <= MaxLedger + 1
        \* Initial: no non-superseded Initial of this customer and brand
        /\ stype = "Initial" =>
              ~\E h \in DOMAIN sohHdr : /\ sohHdr[h].cust = c /\ sohHdr[h].stype = "Initial"
                                        /\ sohHdr[h].brand = brand
                                        /\ sohHdr[h].status # "Superseded"
        /\ sohHdr' = [ h \in 1..new |->
               IF h = new
               THEN [cust |-> c, brand |-> brand, date |-> date, stype |-> stype,
                     status |-> "Draft", sup |-> 0]
               ELSE IF h \in prior
                    THEN [sohHdr[h] EXCEPT !.status = "Superseded", !.sup = new]
                    ELSE sohHdr[h] ]
        /\ sohDet' = det1 \cup
               { [hdr |-> new, sku |-> f[i].sku, row |-> i, date |-> date,
                  qty |-> f[i].qty, active |-> TRUE] : i \in DOMAIN f }
        /\ ledger' = ledger \cup
               { PostLedgerAdjust(nextLid + i - 1, c, f[i].sku, date, f[i].qty, oldQty(i),
                                  new, i, mtype) : i \in DOMAIN f }
        /\ nextLid' = nextLid + Len(f)
        \* 3) the customer is marked Active when a flushed ADJUST row of it exists
        /\ cust' = IF \E r \in ledger : r.cust = c /\ r.mtype = "ADJUST"
                   THEN [cust EXCEPT !.status[c] = "Active"] ELSE cust
        /\ SessionEnd(TRUE)
        /\ last' = [NoResp EXCEPT !.op = "soh_upload", !.posted = {new}]
        /\ UNCHANGED <<nextUid, sellin, conc, preview>>

SohUpload(c, date, stype, f) == Len(sohHdr) < MaxSoh /\ SohUploadBody(c, date, stype, f)

\* ------------------------------------------------------- the anchored balance
\* (reports: sales_pulse_general_working ...; a date 0 stands for None)
LedgerRows(c, sku) == { r \in ledger : r.cust = c /\ r.sku = sku }

\* _signed_qty_expr(): SELLOUT -> -abs(q), every other type -> q
SignedQty(r) == IF r.mtype = "SELLOUT" THEN -Abs(r.qty) ELSE r.qty

RECURSIVE SumSigned(_)
\* COALESCE(SUM(signed), 0.0)
SumSigned(rows) ==
    IF rows = {} THEN 0
    ELSE LET r == CHOOSE x \in rows : TRUE
         IN SignedQty(r) + SumSigned(rows \ {r})

(* variant: the inclusive sum without its lower bound *)
SumSignedUpTo(c, sku, start, end) ==
    SumSigned({ r \in LedgerRows(c, sku) : r.date <= end })

(* variant: the anchor-day sum without the ADJUST exclusion *)
SumSignedOnDate(c, sku, day) ==
    SumSigned({ r \in LedgerRows(c, sku) : r.date = day })

\* _sum_signed_after_date: day < DocDate <= until_incl
SumSignedAfterDate(c, sku, day, until) ==
    SumSigned({ r \in LedgerRows(c, sku) : r.date > day /\ r.date <= until })

\* _sum_signed_on_date_excl_adjust: DocDate = day, MovementType != 'ADJUST'
SumSignedOnDateExclAdjust(c, sku, day) ==
    SumSigned({ r \in LedgerRows(c, sku) : r.date = day /\ r.mtype # "ADJUST" })

(* variant: the inclusive sum with the end day left out *)
SumSignedBeforeEnd(c, sku, start, end) ==
    SumSigned({ r \in LedgerRows(c, sku) : r.date >= start /\ r.date < end })

\* _sum_signed_inclusive: start <= DocDate <= end
SumSignedInclusive(c, sku, start, end) ==
    SumSigned({ r \in LedgerRows(c, sku) : r.date >= start /\ r.date <= end })

(* variant: the customer anchor without its as_of filter *)
AnchorAdjustDateCustomerAnyDate(c, asOf) ==
    MaxOf({ r.date : r \in { x \in ledger : x.cust = c /\ x.mtype = "ADJUST" } })

\* _anchor_adjust_date_customer: MAX(DocDate) of the customer's ADJUST rows
\* dated on or before as_of, any SKU
AnchorAdjustDateCustomer(c, asOf) ==
    MaxOf({ r.date : r \in { x \in ledger : x.cust = c /\ x.mtype = "ADJUST"
                                             /\ x.date <= asOf } })

(* variant: the SKU anchor without its as_of filter *)
AnchorAdjustDateSkuAnyDate(c, sku, asOf) ==
    MaxOf({ r.date : r \in { x \in LedgerRows(c, sku) : x.mtype = "ADJUST" } })

\* _anchor_adjust_date_sku_only: the same for one SKU
AnchorAdjustDateSkuOnly(c, sku, asOf) ==
    MaxOf({ r.date : r \in { x \in LedgerRows(c, sku) : x.mtype = "ADJUST"
                                                       /\ x.date <= asOf } })

\* _effective_anchor_for_sku: `if ca and sa: return max(ca, sa)`, else `sa or ca`
EffectiveAnchorForSku(c, sku, asOf) ==
    LET ca == AnchorAdjustDateCustomer(c, asOf)
        sa == AnchorAdjustDateSkuOnly(c, sku, asOf)
    IN  IF ca # 0 /\ sa # 0 THEN (IF ca >= sa THEN ca ELSE sa)
        ELSE IF sa # 0 THEN sa ELSE ca

\* The active snapshot rows of (customer, SKU)
ActiveSnapshots(c, sku) ==
    { d \in sohDet : d.sku = sku /\ d.active /\ sohHdr[d.hdr].cust = c }

\* _snapshot_qty_on_date: the first active row dated snap_date, ORDER BY
\* SOHUploadID DESC -> (qty, True), or (0.0, False).  Rows of one upload tie
\* in that order, so the result is a set of possible answers.
SnapshotQtyOnDate(c, sku, day) ==
    LET rows == { d \in ActiveSnapshots(c, sku) : d.date = day }
        top  == { d \in rows : \A e \in rows : e.hdr <= d.hdr }
    IN  IF rows = {} THEN { [qty |-> 0, had |-> FALSE] }
        ELSE { [qty |-> d.qty, had |-> TRUE] : d \in top }

\* _latest_active_snapshot (brand None): the first active row with
\* SOHDate <= as_of, ORDER BY SOHDate DESC, SOHUploadID DESC -> (date, qty),
\* or (None, 0.0)
LatestActiveSnapshot(c, sku, asOf) ==
    LET rows == { d \in ActiveSnapshots(c, sku) : d.date <= asOf }
        top  == { d \in rows : \A e \in rows :
                     e.date < d.date \/ (e.date = d.date /\ e.hdr <= d.hdr) }
    IN  IF rows = {} THEN { [date |-> 0, qty |-> 0] }
        ELSE { [date |-> d.date, qty |-> d.qty] : d \in top }

\* _closing_soh_anchored(customer_id, sku_id, as_of): the set of values it
\* can return (one value unless snapshot rows tie)
ClosingSohAnchored(c, sku, asOf) ==
    LET anchor == EffectiveAnchorForSku(c, sku, asOf)
    IN  IF anchor # 0
        THEN { IF s.had
               THEN s.qty + SumSignedOnDateExclAdjust(c, sku, anchor)
                          + SumSignedAfterDate(c, sku, anchor, asOf)
               ELSE SumSignedInclusive(c, sku, anchor, asOf)
               : s \in SnapshotQtyOnDate(c, sku, anchor) }
        ELSE { IF s.date # 0
               THEN s.qty + SumSignedAfterDate(c, sku, s.date, asOf)
               ELSE 0
               : s \in LatestActiveSnapshot(c, sku, asOf) }

\* sell_out_approvals._sum_ledger_between: SUM(Qty) for since < DocDate <= until,
\* from the beginning when since is None
SumLedgerBetween(c, sku, since, until) ==
    SumQty({ r \in LedgerRows(c, sku) :
               r.date <= until /\ (since # 0 => r.date > since) })

\* sell_out_approvals._balance_as_of: latest active snapshot + ledger after it
BalanceAsOf(c, sku, asOf) ==
    { s.qty + SumLedgerBetween(c, sku, s.date, asOf) : s \in LatestActiveSnapshot(c, sku, asOf) }

\* --------------------------------------------------------------- FIFO aging
\* (reports: fifo_aging_sqlalchemy.build_fifo_ctes, customer_id and sku_id
\* given; a date 0 stands for no row)

\* CTE AdjustDates: MIN(DocDate) of the customer's ADJUST rows dated on or
\* before as_of
FifoAdjustDate(c, asOf) ==
    MinOf({ r.date : r \in { x \in ledger : x.cust = c /\ x.mtype = "ADJUST"
                                             /\ x.date <= asOf } })

\* CTE Movements: the pair's rows in [adjust_date, as_of]; the inner join
\* leaves nothing for a customer without ADJUST
Movements(c, sku, asOf) ==
    LET adj == FifoAdjustDate(c, asOf)
    IN  IF adj = 0 THEN {}
        ELSE { r \in LedgerRows(c, sku) : r.date <= asOf /\ r.date >= adj }

\* CTE Totals: SUM(CASE WHEN Qty < 0 THEN -Qty ELSE 0) and
\* SUM(CASE WHEN Qty > 0 THEN Qty ELSE 0)
TotalIssues(c, sku, asOf) == -SumQty({ r \in Movements(c, sku, asOf) : r.qty < 0 })
TotalReceipts(c, sku, asOf) == SumQty({ r \in Movements(c, sku, asOf) : r.qty > 0 })

\* CTE Receipts: the rows with Qty > 0 (the lots)
Receipts(c, sku, asOf) == { r \in Movements(c, sku, asOf) : r.qty > 0 }

(* variant: the window ordered by LedgerID alone *)
CumInPrevById(c, sku, asOf, lot) ==
    SumQty({ r \in Receipts(c, sku, asOf) : r.id < lot.id })

\* cum_in_prev: SUM(Qty) OVER (ORDER BY DocDate, LedgerID ROWS UNBOUNDED
\* PRECEDING .. 1 PRECEDING) within Receipts, COALESCEd to 0
CumInPrev(c, sku, asOf, lot) ==
    SumQty({ r \in Receipts(c, sku, asOf) :
               r.date < lot.date \/ (r.date = lot.date /\ r.id < lot.id) })

(* variant: the partial branch without the earlier lots subtracted *)
ConsumedIgnoringPrev(totalIssues, cumInPrev, lotQty) ==
    IF totalIssues <= cumInPrev THEN 0
    ELSE IF totalIssues >= cumInPrev + lotQty THEN lotQty
    ELSE totalIssues

\* consumed_expr: 0 when the issues end before the lot, lot_qty when they
\* cover it, else the part of the issues that reaches into it
ConsumedQty(totalIssues, cumInPrev, lotQty) ==
    IF totalIssues <= cumInPrev THEN 0
    ELSE IF totalIssues >= cumInPrev + lotQty THEN lotQty
    ELSE totalIssues - cumInPrev

\* CTE Allocated: one row per lot
Allocated(c, sku, asOf) ==
    { LET prev == CumInPrev(c, sku, asOf, lot)
          cons == ConsumedQty(TotalIssues(c, sku, asOf), prev, lot.qty)
      IN  [id |-> lot.id, lot_date |-> lot.date, lot_qty |-> lot.qty,
           cum_in_prev |-> prev, consumed_qty |-> cons,
           remaining_qty |-> lot.qty - cons]
      : lot \in Receipts(c, sku, asOf) }

\* CTE LiveLayers: the lots with remaining_qty > 0
LiveLayers(c, sku, asOf) == { a \in Allocated(c, sku, asOf) : a.remaining_qty > 0 }

RECURSIVE SumRemaining(_)
\* SUM(remaining_qty) over rows of Allocated / LiveLayers
SumRemaining(rows) ==
    IF rows = {} THEN 0
    ELSE LET a == CHOOSE x \in rows : TRUE
         IN a.remaining_qty + SumRemaining(rows \ {a})


\* ---- the two statements build_fifo_ctes returns, with its optional arguments
\* (0, "" and NoAge stand for None; the session's brand access list is empty)
NoAge == -1
FifoFilter(cid, sid, art, brand, mn, mx, pos) ==
    [customer_id |-> cid, sku_id |-> sid, article_code |-> art, brand |-> brand,
     min_age |-> mn, max_age |-> mx, only_positive_soh |-> pos]
NoFifoFilter == FifoFilter(0, 0, 0, "", NoAge, NoAge, FALSE)
FifoFilters ==
    { FifoFilter(cid, sid, art, brand, mn, mx, pos) :
        cid \in {0} \cup Customers, sid \in {0} \cup SKUs, art \in {0, 2},
        brand \in {"", "B"}, mn \in {NoAge, 1}, mx \in {NoAge, 1}, pos \in BOOLEAN }

(* variant: the article and age arguments applied to the movements window *)
FifoMovementsNarrowed(flt, asOf) ==
    { r \in ledger : /\ FifoAdjustDate(r.cust, asOf) # 0
                     /\ r.date <= asOf /\ r.date >= FifoAdjustDate(r.cust, asOf)
                     /\ flt.sku_id # 0 => r.sku = flt.sku_id
                     /\ flt.customer_id # 0 => r.cust = flt.customer_id
                     /\ flt.min_age # NoAge => asOf - r.date >= flt.min_age }

(* variant: the movements window without the join with AdjustDates *)
FifoMovementsUnanchored(flt, asOf) ==
    { r \in ledger : /\ r.date <= asOf
                     /\ flt.sku_id # 0 => r.sku = flt.sku_id
                     /\ flt.customer_id # 0 => r.cust = flt.customer_id }

\* CTE Movements for all pairs: the join with AdjustDates, DocDate in
\* [adjust_date, as_of], and the sku_id / customer_id predicates when given
FifoMovements(flt, asOf) ==
    { r \in ledger : /\ FifoAdjustDate(r.cust, asOf) # 0
                     /\ r.date <= asOf /\ r.date >= FifoAdjustDate(r.cust, asOf)
                     /\ flt.sku_id # 0 => r.sku = flt.sku_id
                     /\ flt.customer_id # 0 => r.cust = flt.customer_id }

\* CTEs Totals, Receipts and Allocated over that window, PARTITION BY
\* CustomerID, SKU_ID
FifoAllocated(flt, asOf) ==
    LET M == FifoMovements(flt, asOf)
    IN  { LET P    == { x \in M : x.cust = lot.cust /\ x.sku = lot.sku }
              ti   == -SumQty({ x \in P : x.qty < 0 })
              prev == SumQty({ x \in P : /\ x.qty > 0
                                         /\ \/ x.date < lot.date
                                            \/ (x.date = lot.date /\ x.id < lot.id) })
              cons == ConsumedQty(ti, prev, lot.qty)
          IN  [cust |-> lot.cust, sku |-> lot.sku, id |-> lot.id,
               lot_date |-> lot.date, lot_qty |-> lot.qty,
               consumed_qty |-> cons, remaining_qty |-> lot.qty - cons]
          : lot \in { r \in M : r.qty > 0 } }

(* variant: the exhausted lots kept as layers *)
FifoLiveLayersWithExhausted(flt, asOf) ==
    { a \in FifoAllocated(flt, asOf) : a.remaining_qty >= 0 }

\* CTE LiveLayers
FifoLiveLayers(flt, asOf) == { a \in FifoAllocated(flt, asOf) : a.remaining_qty > 0 }

\* CTE LiveLayersFiltered: age_days = DATEDIFF(day, lot_date, as_of) within
\* min_age / max_age when given
FifoLiveLayersFiltered(flt, asOf) ==
    { a \in FifoLiveLayers(flt, asOf) :
        /\ flt.min_age # NoAge => asOf - a.lot_date >= flt.min_age
        /\ flt.max_age # NoAge => asOf - a.lot_date <= flt.max_age }

\* the predicates of the final statements on customer, SKU, brand and article
\* (ArticleCode of SKU n is article n)
FifoVisible(flt, c, sku) ==
    /\ flt.brand # "" => BrandOf(sku) = flt.brand
    /\ flt.article_code # 0 => sku = flt.article_code
    /\ flt.customer_id # 0 => c = flt.customer_id
    /\ flt.sku_id # 0 => sku = flt.sku_id

\* CTE Buckets: one row per pair that has a filtered live layer
Buckets(flt, asOf) ==
    LET live == FifoLiveLayersFiltered(flt, asOf)
    IN  { LET rows == { a \in live : a.cust = p[1] /\ a.sku = p[2] }
          IN  [cust |-> p[1], sku |-> p[2], soh_qty |-> SumRemaining(rows),
               oldest_lot_date |-> MinOf({ a.lot_date : a \in rows }),
               newest_lot_date |-> MaxOf({ a.lot_date : a \in rows })]
          : p \in { <<a.cust, a.sku>> : a \in live } }

\* bucket_stmt: the bucket rows reported
BucketStmt(flt, asOf) ==
    { b \in Buckets(flt, asOf) : /\ FifoVisible(flt, b.cust, b.sku)
                                 /\ flt.only_positive_soh => b.soh_qty > 0 }

\* layer_stmt: the per-lot rows reported (LiveLayers, not the age-filtered CTE)
LayerStmt(flt, asOf) ==
    { a \in FifoLiveLayers(flt, asOf) : FifoVisible(flt, a.cust, a.sku) }

\* ------------------------------------------------------- the negative preview
\* (sell_out_approvals: _preview_negatives, _load_persisted_preview,
\* _compute_and_persist_preview, approval_details)
NoPreview == [rows |-> {}, flagged |-> {}]

(* variant: the lines of one SKU walked in RowNumber order *)
RECURSIVE SortLinesByRow(_)
SortLinesByRow(rows) ==
    IF rows = {} THEN <<>>
    ELSE LET d == CHOOSE x \in rows : \A y \in rows : x.row <= y.row
         IN <<d>> \o SortLinesByRow(rows \ {d})

RECURSIVE SortLines(_)
\* rows.sort(key=lambda r: (r.DocumentDate, r.RowNumber))
SortLines(rows) ==
    IF rows = {} THEN <<>>
    ELSE LET d == CHOOSE x \in rows : \A y \in rows :
                     x.date < y.date \/ (x.date = y.date /\ x.row <= y.row)
         IN <<d>> \o SortLines(rows \ {d})

(* variant: the running total restarted on every line *)
CumTotalPerLine(cum, qty) == qty

\* cum_total += qty
CumTotal(cum, qty) == cum + qty

RECURSIVE PreviewWalk(_, _, _)
\* The loop over the sorted lines of one SKU.  av[date] is what
\* _balance_as_of returned at the switch to that date (the lines are sorted
\* by date, so it is called once per distinct date); cum is cum_total.  All
\* quantities are whole numbers, so `resulting < -1e-9` is `resulting < 0`.
PreviewWalk(rows, av, cum) ==
    IF rows = <<>> THEN {}
    ELSE LET d    == Head(rows)
             cum2 == CumTotal(cum, d.qty)
             res  == av[d.date] - cum2
         IN  { [row |-> d.row, sku |-> d.sku, date |-> d.date, qty |-> d.qty,
                avail |-> av[d.date], cum |-> cum2, res |-> res, neg |-> res < 0] }
             \cup PreviewWalk(Tail(rows), av, cum2)

\* _preview_negatives(upload): the (has_neg, per_line) results it can return,
\* one per choice of the _balance_as_of answers (one unless snapshot rows tie)
PreviewNegatives(u) ==
    LET ds   == ActiveDetails(Store, u)
        c    == uploads[u].cust
        keys == { <<d.sku, d.date>> : d \in ds }
        vals == UNION { BalanceAsOf(c, k[1], k[2]) : k \in keys }
        avs  == { av \in [keys -> vals] :
                    \A k \in keys : av[k] \in BalanceAsOf(c, k[1], k[2]) }
    IN  { LET lines == UNION { PreviewWalk(SortLines({ d \in ds : d.sku = sku }),
                                           [dt \in Dates |-> IF <<sku, dt>> \in keys
                                                             THEN av[<<sku, dt>>] ELSE 0],
                                           0)
                               : sku \in { d.sku : d \in ds } }
          IN  [has_neg |-> \E l \in lines : l.neg, lines |-> lines]
          : av \in avs }

\* dec_or_none: Decimal(str(x)) stored in a Numeric(18, 3) column
Numeric3(x) == (x * 1000) \div 1000

\* one SP_SellOutNegPreview row
PreviewRow(u, l) ==
    [upload |-> u, row |-> l.row, sku |-> l.sku, date |-> l.date,
     qty |-> Numeric3(l.qty), avail |-> Numeric3(l.avail), cum |-> Numeric3(l.cum),
     res |-> Numeric3(l.res), neg |-> l.neg]

\* _load_persisted_preview: the rows as per-line dicts
PersistedLines(pv, u) ==
    { [row |-> x.row, sku |-> x.sku, date |-> x.date, qty |-> x.qty, avail |-> x.avail,
       cum |-> x.cum, res |-> x.res, neg |-> x.neg] : x \in { y \in pv.rows : y.upload = u } }

(* variant: the insert without the delete of the old rows *)
PersistWithoutDelete(pv, u, r) ==
    [rows    |-> pv.rows \cup { PreviewRow(u, l) : l \in r.lines },
     flagged |-> IF r.has_neg THEN pv.flagged \cup {u} ELSE pv.flagged \ {u}]

\* _compute_and_persist_preview with result r of _preview_negatives: delete the
\* upload's rows, insert the new ones, set HasPotentialNegatives
ComputeAndPersistPreview(pv, u, r) ==
    [rows    |-> { x \in pv.rows : x.upload # u } \cup { PreviewRow(u, l) : l \in r.lines },
     flagged |-> IF r.has_neg THEN pv.flagged \cup {u} ELSE pv.flagged \ {u}]

\* GET /approvals/<upload_id> (recompute = force): the persisted preview when
\* there is one and no recompute is asked, else a fresh preview for the
\* response and, inside _tx(), a second one that is persisted and committed
\* (the commit makes an uncommitted upload durable as well)
ApprovalDetails(u, force) ==
    /\ u \in DOMAIN uploads
    /\ IF ~force /\ PersistedLines(preview, u) # {}
       THEN /\ last' = [op |-> "details", ids |-> <<u>>, posted |-> {}, skipped |-> {},
                        failed |-> {}, win |-> <<>>, computed |-> FALSE,
                        lines |-> PersistedLines(preview, u),
                        has_neg |-> \E l \in PersistedLines(preview, u) : l.neg,
                        hdr_neg |-> u \in preview.flagged]
            /\ UNCHANGED <<uploads, details, cUploads, cDetails, nextUid, ledger, nextLid,
                           sellin, sohHdr, sohDet, conc, preview, cust>>
       ELSE \E r1, r2 \in PreviewNegatives(u) :
            /\ preview' = ComputeAndPersistPreview(preview, u, r2)
            /\ SessionEnd(TRUE)
            /\ last' = [op |-> "details", ids |-> <<u>>, posted |-> {}, skipped |-> {},
                        failed |-> {}, win |-> <<>>, computed |-> TRUE,
                        lines |-> r1.lines, has_neg |-> r1.has_neg, hdr_neg |-> r1.has_neg]
            /\ UNCHANGED <<nextUid, ledger, nextLid, sellin, sohHdr, sohDet, conc, cust>>

\* --------------------------------------------------------- customer statuses
\* (customer_management: _recompute_customer_statuses, customers_update)
MaxToday == 5
\* 10**9 days: a movement type that never occurred
NeverDays == 1000000000

\* DeadThresholdDays, HibernatingSellInThresholdDays and
\* HibernatingSellOutThresholdDays (defaults 90, 30, 30), scaled to the dates
StatusConfigs == { [dead |-> 2, hibIn |-> 1, hibOut |-> 1],
                   [dead |-> 1, hibIn |-> 2, hibOut |-> 2] }
Statuses == {"Active", "DEAD", "Disabled"}

NoCust == [status |-> [c \in Customers |-> "Active"], tags |-> [c \in Customers |-> {}],
           today |-> MaxDate, cfg |-> [dead |-> 2, hibIn |-> 1, hibOut |-> 1]]

\* subqueries last_in / last_out: MAX(DocDate) of the customer's entries of
\* one MovementType, 0 for no row of the outer join
LastMovement(c, mtype) ==
    MaxOf({ r.date : r \in { x \in ledger : x.cust = c /\ x.mtype = mtype } })

\* (today - d).days if d else 10**9
DaysSince(today, d) == IF d = 0 THEN NeverDays ELSE today - d

(* variant: DEAD as soon as one side is idle past the threshold *)
NewPrimaryEitherIdle(dsIn, dsOut, deadDays) ==
    IF dsIn > deadDays \/ dsOut > deadDays THEN "DEAD" ELSE "Active"

\* new_primary = sid_dead if (ds_in > dead_days and ds_out > dead_days) else sid_active
NewPrimary(dsIn, dsOut, deadDays) ==
    IF dsIn > deadDays /\ dsOut > deadDays THEN "DEAD" ELSE "Active"

\* want_tags
WantTags(dsIn, dsOut, cfg) ==
    (IF dsIn > cfg.hibIn THEN {"Hibernating-Sell-in"} ELSE {})
    \cup (IF dsOut > cfg.hibOut THEN {"Hibernating-Sell-out"} ELSE {})

(* variant: the MERGE pass without the DELETE pass *)
SyncTagsInsertOnly(before, want) == before \cup want

\* _sync_tags(customer_id, want_ids) on the customer's tag rows `before`:
\* DELETE the rows whose StatusID is not wanted (all rows when nothing is
\* wanted), then MERGE every wanted tag in
SyncTags(before, want) ==
    (IF want # {} THEN { t \in before : t \in want } ELSE {}) \cup want

\* POST /api/status/recompute: every customer that is not Disabled gets its
\* tags synced to want_tags and its primary status set; one commit at the end
RecomputeCustomerStatuses ==
    LET dsIn(c)  == DaysSince(cust.today, LastMovement(c, "SELLIN"))
        dsOut(c) == DaysSince(cust.today, LastMovement(c, "SELLOUT"))
    IN  /\ cust' = [cust EXCEPT
                      !.status = [c \in Customers |->
                                    IF cust.status[c] = "Disabled" THEN "Disabled"
                                    ELSE NewPrimary(dsIn(c), dsOut(c), cust.cfg.dead)],
                      !.tags   = [c \in Customers |->
                                    IF cust.status[c] = "Disabled" THEN cust.tags[c]
                                    ELSE LET want == WantTags(dsIn(c), dsOut(c), cust.cfg)
                                         IN  IF cust.tags[c] # want
                                             THEN SyncTags(cust.tags[c], want)
                                             ELSE cust.tags[c]]]
        /\ SessionEnd(TRUE)
        /\ last' = [NoResp EXCEPT !.op = "recompute"]
        /\ UNCHANGED <<nextUid, ledger, nextLid, sellin, sohHdr, sohDet, conc, preview>>

\* PATCH /api/customers/<cid> with a status in the payload
CustomersUpdate(c, st) ==
    /\ cust' = [cust EXCEPT !.status[c] = st]
    /\ SessionEnd(TRUE)
    /\ last' = [NoResp EXCEPT !.op = "customer"]
    /\ UNCHANGED <<nextUid, ledger, nextLid, sellin, sohHdr, sohDet, conc, preview>>

\* date.today() moves on
NextDay ==
    /\ cust.today < MaxToday
    /\ cust' = [cust EXCEPT !.today = @ + 1]
    /\ UNCHANGED <<uploads, details, cUploads, cDetails, nextUid, ledger, nextLid,
                   sellin, sohHdr, sohDet, last, conc, preview>>

\* ------------------------------------------------------------------ the system
NoConc == [on |-> FALSE]

Init ==
    /\ uploads = <<>> /\ details = {} /\ cUploads = <<>> /\ cDetails = {}
    /\ nextUid = 1
    /\ ledger = {} /\ nextLid = 1
    /\ sellin = {}
    /\ sohHdr = <<>> /\ sohDet = {}
    /\ last = NoResp
    /\ conc = NoConc
    /\ preview = NoPreview
    /\ cust = NoCust

Windows == { <<a, b>> \in Dates \X Dates : a <= b }
Selections == SUBSET RTOS \ {{}}
FirstRow == { r \in RTOS : r.rid = 1 }

\* The sell-out workflow: upload, submit, approve, reject; the scheduled
\* capture gives SKU 1 its sell-in history (and fails on a second run, the
\* row being captured already).
Next ==
    \/ \E c \in Customers, f \in Files : UploadSellOut(c, f)
    \/ \E ids \in IdLists, ok \in BOOLEAN : ApproveUploads(ids, ok)
    \/ \E ids \in IdLists, ok \in BOOLEAN : RejectUploads(ids, ok)
    \/ \E ids \in IdLists, ok \in BOOLEAN : SubmitBulk(ids, ok)
    \/ CaptureScheduled(FirstRow)

Spec == Init /\ [][Next]_vars

\* Every producer of the ledger: scheduled capture, capture-now,
\* delete-sellin, backfill, SOH upload, sell-out upload and approval.
LedgerSelections == { sel \in Selections : Cardinality(sel) <= 2 /\ \E r \in sel : r.rid = 1 }
LedgerWindows == { w \in Windows : w[1] = 1 }
LedgerSohFiles == { f \in SohFiles : Len(f) = 1 /\ f[1].sku = 1 }
LedgerFiles == { f \in Files : Len(f) = 1 }

LedgerSohUpload(c, t, f) == Len(sohHdr) < MaxLedgerSoh /\ SohUpload(c, 1, t, f)
LedgerUploadSellOut(c, f) == nextUid <= MaxLedgerUploads /\ UploadSellOut(c, f)

NextLedger ==
    \/ \E sel \in LedgerSelections : CaptureScheduled(sel)
    \/ \E sel \in LedgerSelections, w \in LedgerWindows : CaptureNow(sel, w[1], w[2])
    \/ \E w \in LedgerWindows : DeleteSellin(w[1], w[2])
    \/ \E w \in LedgerWindows : BackfillLedger(w[1], w[2])
    \/ \E c \in Customers, t \in {"Initial", "Supersede"}, f \in LedgerSohFiles :
          LedgerSohUpload(c, t, f)
    \/ \E c \in Customers, f \in LedgerFiles : LedgerUploadSellOut(c, f)
    \/ \E u \in 1..MaxLedgerUploads, ok \in BOOLEAN : ApproveUploads(<<u>>, ok)

SpecLedger == Init /\ [][NextLedger]_vars

\* SOH uploads only: the ADJUST history of a customer.  The files name one
\* SKU each.
SohOnlyFiles == { f \in SohFiles : Len(f) = 1 }
SohOnlyUpload(c, d, t, f) == Len(sohHdr) < MaxSohOnly /\ SohUploadBody(c, d, t, f)

NextSoh ==
    \E c \in Customers, d \in Dates, t \in {"Initial", "Supersede"}, f \in SohOnlyFiles :
       SohOnlyUpload(c, d, t, f)

SpecSoh == Init /\ [][NextSoh]_vars

\* SOH snapshot uploads of every file, the one that lists a SKU twice included
NextSnap ==
    \E c \in Customers, d \in Dates, t \in {"Initial", "Supersede"}, f \in SohFiles :
       SohUpload(c, d, t, f)

SpecSnap == Init /\ [][NextSnap]_vars

\* Stock of one customer: SOH snapshots, sell-in capture of single rows, one
\* sell-out upload dated on the last day, and its approval.
MaxStockUploads == 1
StockSohDates == {1, 2}
StockSelections == { sel \in Selections : Cardinality(sel) = 1 /\ \A r \in sel : r.rid # 2 }
StockFiles == { << Line(1, MaxDate, 3) >> }

StockSohUpload(c, d, t, f) == Len(sohHdr) < MaxSoh /\ SohUploadBody(c, d, t, f)
StockUploadSellOut(c, f) == nextUid <= MaxStockUploads /\ UploadSellOut(c, f)

NextStock ==
    \/ \E c \in Customers, d \in StockSohDates, t \in {"Initial", "Supersede"},
          f \in SohOnlyFiles : StockSohUpload(c, d, t, f)
    \/ \E sel \in StockSelections : CaptureScheduled(sel)
    \/ \E c \in Customers, f \in StockFiles : StockUploadSellOut(c, f)
    \/ \E ok \in BOOLEAN : ApproveUploads(<<1>>, ok)

SpecStock == Init /\ [][NextStock]_vars

\* The ledger histories the FIFO report is read on: one Initial snapshot,
\* sell-in capture of single rows (row 2 carries a return), one sell-out
\* upload and its approval.
FifoSelections == { sel \in Selections : Cardinality(sel) = 1 }
FifoSohUpload(c, d, f) == Len(sohHdr) < MaxLedgerSoh /\ SohUploadBody(c, d, "Initial", f)

NextFifo ==
    \/ \E c \in Customers, d \in StockSohDates, f \in SohOnlyFiles : FifoSohUpload(c, d, f)
    \/ \E sel \in FifoSelections : CaptureScheduled(sel)
    \/ \E c \in Customers, f \in StockFiles : StockUploadSellOut(c, f)
    \/ ApproveUploads(<<1>>, TRUE)

SpecFifo == Init /\ [][NextFifo]_vars

\* The negative preview of sell-out uploads: one Initial snapshot of both
\* SKUs, capture of sell-in row 1, two uploads (the first file has two lines
\* of one SKU on one day, the second has its rows out of date order and a
\* second SKU), the approval details request and the approval.
PreviewSohFiles == { f \in SohFiles : Len(f) = 2 /\ f[1].sku # f[2].sku }
PreviewFiles == { << Line(1, 1, 1), Line(1, 1, 3) >>,
                  << Line(1, 2, 2), Line(1, 1, 1), Line(2, 2, 1) >> }

PreviewSohUpload(c, d, f) == Len(sohHdr) < MaxLedgerSoh /\ SohUploadBody(c, d, "Initial", f)

NextPreview ==
    \/ \E c \in Customers, d \in StockSohDates, f \in PreviewSohFiles : PreviewSohUpload(c, d, f)
    \/ CaptureScheduled(FirstRow)
    \/ \E c \in Customers, f \in PreviewFiles : UploadSellOut(c, f)
    \/ \E u \in UploadIds, force \in BOOLEAN : ApprovalDetails(u, force)
    \/ \E u \in UploadIds : ApproveUploads(<<u>>, TRUE)

SpecPreview == Init /\ [][NextPreview]_vars

\* Signs of the ledger quantities: source rows with a positive, zero and
\* negative GrossSale and ReturnQty, files with a positive, zero and negative
\* SellOutQty.
SignRows == { SrcRow(1, 1, 1, 1, 1, 1, 2, 0),
              SrcRow(2, 1, 2, 1, 1, 1, 2, -1),
              SrcRow(3, 2, 3, 1, 2, 1, 0, 1),
              SrcRow(4, 2, 4, 1, 2, 1, -1, 0) }
SignSelections == { {r} : r \in SignRows }
SignFiles == { << Line(1, 1, 1) >>, << Line(1, 2, 0), Line(2, 2, 2) >>,
               << Line(1, 1, -1) >> }

(* variant: the upload without its negative-quantity check *)
NoQtyErrors(f) == {}

\* upload() validation 2): the rows whose SellOutQty is below zero
QtyErrors(f) == { i \in DOMAIN f : f[i].qty < 0 }

\* POST /sell-out/upload with its quantity validation: 400 and no write when
\* a row fails it
ValidatedUploadSellOut(c, f) ==
    IF QtyErrors(f) # {}
    THEN /\ last' = [NoResp EXCEPT !.op = "upload", !.failed = QtyErrors(f)]
         /\ UNCHANGED <<uploads, details, cUploads, cDetails, nextUid, ledger, nextLid,
                        sellin, sohHdr, sohDet, conc, preview, cust>>
    ELSE UploadSellOut(c, f)

NextSigns ==
    \/ \E sel \in SignSelections : CaptureScheduled(sel)
    \/ \E c \in Customers, f \in SignFiles : ValidatedUploadSellOut(c, f)
    \/ \E u \in UploadIds : ApproveUploads(<<u>>, TRUE)

SpecSigns == Init /\ [][NextSigns]_vars

\* Customer statuses over the ledger of one customer: sell-in capture of
\* single rows, sell-out uploads and their approval, the passing days, a
\* manual status change and the recompute.
StatusFiles == { << Line(1, 1, 1) >>, << Line(1, 2, 1) >> }

InitStatus ==
    /\ uploads = <<>> /\ details = {} /\ cUploads = <<>> /\ cDetails = {}
    /\ nextUid = 1
    /\ ledger = {} /\ nextLid = 1
    /\ sellin = {}
    /\ sohHdr = <<>> /\ sohDet = {}
    /\ last = NoResp
    /\ conc = NoConc
    /\ preview = NoPreview
    /\ \E cfg \in StatusConfigs : cust = [NoCust EXCEPT !.cfg = cfg]

NextStatus ==
    \/ \E sel \in StockSelections : CaptureScheduled(sel)
    \/ \E c \in Customers, f \in StatusFiles : UploadSellOut(c, f)
    \/ \E u \in UploadIds : ApproveUploads(<<u>>, TRUE)
    \/ NextDay
    \/ \E c \in Customers, st \in Statuses : CustomersUpdate(c, st)
    \/ RecomputeCustomerStatuses

SpecStatus == InitStatus /\ [][NextStatus]_vars

\* ------------------------------------------- two approve requests, interleaved
\* Two POST /approvals/approve requests for one Draft upload run in two
\* threads of the server and share the session `model`; each line of
\* approve_uploads / _post_sellout_running is one atomic step.  In this
\* specification uploads, details and ledger are the open transaction's view
\* (flushed rows); conc holds the committed ledger, what the session has
\* pending (added rows, the dirty header object, added approval rows), the
\* Status attribute of the one SP_SellOutUploads object of the identity map,
\* and each request's locals.
Reqs == {"A", "B"}

NewReq(ok) == [pc |-> "get", affected |-> -1, seen |-> "", actorOk |-> ok,
               todo |-> <<>>, added |-> 0, res |-> "none", failed |-> FALSE]

\* Before the two requests: sell-in row 1 captured, the two-line file
\* uploaded as UploadID 1 and submitted (which committed it).
InitConc ==
    /\ sellin = FirstRow
    /\ ledger = { SiLedgerRow(1, r, r.gross, "", FALSE) : r \in FirstRow }
    /\ nextLid = 2
    /\ uploads = << [cust |-> 1, ps |-> 1, pe |-> 2, status |-> "Draft", sup |-> 0] >>
    /\ cUploads = uploads
    /\ details = { [upload |-> 1, sku |-> 1, row |-> 1, date |-> 1, qty |-> 2, active |-> TRUE],
                   [upload |-> 1, sku |-> 1, row |-> 2, date |-> 2, qty |-> 1, active |-> TRUE] }
    /\ cDetails = details
    /\ nextUid = 2
    /\ sohHdr = <<>> /\ sohDet = {}
    /\ last = [NoResp EXCEPT !.op = "submit", !.ids = <<1>>, !.posted = {1}]
    /\ preview = NoPreview
    /\ cust = NoCust
    /\ \E okA, okB \in BOOLEAN :
          conc = [on |-> TRUE, cLedger |-> ledger, pending |-> <<>>, dirty |-> "none",
                  appr |-> {}, mem |-> "expired",
                  req |-> [r \in Reqs |-> NewReq(IF r = "A" THEN okA ELSE okB)]]

\* the upload both requests name
ConcUpload == CHOOSE u \in DOMAIN cUploads : TRUE

\* reading upload.Status: an expired (or not yet loaded) object is loaded
\* from the transaction's view
MemStatus == IF conc.mem = "expired" THEN uploads[ConcUpload].status ELSE conc.mem

\* model.flush(): INSERT the pending ledger and approval rows, UPDATE the
\* dirty header.  It fails on a non-numeric actor or on the unique index.
ConcFlush ==
    LET n    == Len(conc.pending)
        rows == { [conc.pending[i] EXCEPT !.id = nextLid + i - 1] : i \in 1..n }
    IN [ok      |-> conc.dirty # "bad" /\ FALSE \notin conc.appr /\ UniqueOk(ledger, rows),
        ledger  |-> ledger \cup rows,
        nextLid |-> nextLid + n,
        uploads |-> IF conc.dirty = "none" THEN uploads
                    ELSE [uploads EXCEPT ![ConcUpload].status = "Posted"]]

\* _tx(): except: model.rollback(); raise -- and approve_uploads' except
\* clause appends the upload to failed.  The rollback discards the open
\* transaction, expunges the pending objects and expires the loaded ones.
ConcRaise(r) ==
    /\ uploads' = cUploads /\ details' = cDetails /\ ledger' = conc.cLedger
    /\ conc' = [conc EXCEPT !.pending = <<>>, !.dirty = "none", !.appr = {},
                            !.mem = "expired",
                            !.req[r].pc = "done", !.req[r].failed = TRUE]
    /\ UNCHANGED <<cUploads, cDetails, nextLid, nextUid, sellin, sohHdr, sohDet, last,
                   preview, cust>>

ConcKeep == UNCHANGED <<uploads, details, cUploads, cDetails, ledger, nextLid, nextUid,
                        sellin, sohHdr, sohDet, last, preview, cust>>

\* u = _get_upload_or_404(upload_id)
CGet(r) ==
    /\ conc.req[r].pc = "get"
    /\ conc' = [conc EXCEPT !.mem = MemStatus, !.req[r].pc = "claim"]
    /\ ConcKeep

\* affected = query.filter(UploadID == u.UploadID, Status == "Draft")
\*                 .update({Status: "Posting"}, synchronize_session=False)
CClaim(r) ==
    LET u == ConcUpload
        a == ClaimAffected(Store, u)
    IN  /\ conc.req[r].pc = "claim"
        /\ uploads' = IF a = 1 THEN [uploads EXCEPT ![u].status = "Posting"] ELSE uploads
        /\ conc' = [conc EXCEPT !.req[r].pc = "flush", !.req[r].affected = a,
                                !.req[r].seen = uploads[u].status]
        /\ UNCHANGED <<details, cUploads, cDetails, ledger, nextLid, nextUid,
                       sellin, sohHdr, sohDet, last, preview, cust>>

\* model.flush()
CFlush(r) ==
    LET f == ConcFlush
    IN  /\ conc.req[r].pc = "flush"
        /\ IF f.ok
           THEN /\ uploads' = f.uploads /\ ledger' = f.ledger /\ nextLid' = f.nextLid
                /\ conc' = [conc EXCEPT !.pending = <<>>, !.dirty = "none", !.appr = {},
                                        !.req[r].pc = "check"]
                /\ UNCHANGED <<details, cUploads, cDetails, nextUid, sellin, sohHdr,
                               sohDet, last, preview, cust>>
           ELSE ConcRaise(r)

\* if affected != 1: skipped.append({..., "Status": u.Status}); continue
CCheck(r) ==
    /\ conc.req[r].pc = "check"
    /\ conc' = IF ClaimLost(conc.req[r].affected)
               THEN [conc EXCEPT !.mem = MemStatus, !.req[r].pc = "commit",
                                 !.req[r].res = "skipped"]
               ELSE [conc EXCEPT !.req[r].pc = "post"]
    /\ ConcKeep

\* _post_sellout_running: the Posted check and the query of the active lines
CPost(r) ==
    LET u  == ConcUpload
        ds == ActiveDetails(Store, u)
        q  == [i \in 1..Cardinality(ds) |-> CHOOSE d \in ds : DetailRank(ds, d) = i]
    IN  /\ conc.req[r].pc = "post"
        /\ IF MemStatus = "Posted" \/ ds = {}
           THEN ConcRaise(r)
           ELSE /\ conc' = [conc EXCEPT !.mem = MemStatus, !.req[r].pc = "add",
                                        !.req[r].todo = q]
                /\ ConcKeep

\* for d in rows: model.add(SP_InventoryLedger(...))   (one line per step)
CAdd(r) ==
    LET u  == ConcUpload
        d  == Head(conc.req[r].todo)
        row == [SelloutRow(Store, u, {d}, d) EXCEPT !.id = 0]
    IN  /\ conc.req[r].pc = "add"
        /\ conc' = IF conc.req[r].todo = <<>>
                   THEN [conc EXCEPT !.req[r].pc = "mark"]
                   ELSE [conc EXCEPT !.pending = Append(@, row),
                                     !.req[r].todo = Tail(@),
                                     !.req[r].added = @ + 1]
        /\ ConcKeep

\* upload.Status = "Posted"; upload.ApprovedAt = ...; upload.ApprovedBy = actor
CMark(r) ==
    /\ conc.req[r].pc = "mark"
    /\ conc' = [conc EXCEPT !.mem = "Posted",
                            !.dirty = IF conc.req[r].actorOk THEN "ok" ELSE "bad",
                            !.req[r].pc = "appr"]
    /\ ConcKeep

\* model.add(SP_SellOutApproval(..., Actor=actor, ...)); posted.append(upload_id)
CAppr(r) ==
    /\ conc.req[r].pc = "appr"
    /\ conc' = [conc EXCEPT !.appr = @ \cup {conc.req[r].actorOk},
                            !.req[r].pc = "commit", !.req[r].res = "posted"]
    /\ ConcKeep

\* the end of `with _tx():` -- model.commit()
CCommit(r) ==
    LET f == ConcFlush
    IN  /\ conc.req[r].pc = "commit"
        /\ IF f.ok
           THEN /\ uploads' = f.uploads /\ ledger' = f.ledger /\ nextLid' = f.nextLid
                /\ cUploads' = f.uploads /\ cDetails' = details
                /\ conc' = [conc EXCEPT !.pending = <<>>, !.dirty = "none", !.appr = {},
                                        !.cLedger = f.ledger, !.req[r].pc = "done"]
                /\ UNCHANGED <<details, nextUid, sellin, sohHdr, sohDet, last, preview, cust>>
           ELSE ConcRaise(r)

\* The Session object is not safe for concurrent use: a session call of one
\* thread that overlaps a call of the other thread may raise instead of
\* taking its turn.
CRace(r) ==
    /\ conc.req[r].pc # "done"
    /\ \E o \in Reqs \ {r} : conc.req[o].pc # "done"
    /\ ConcRaise(r)

NextConc ==
    \E r \in Reqs :
       \/ CGet(r) \/ CClaim(r) \/ CFlush(r) \/ CCheck(r) \/ CPost(r)
       \/ CAdd(r) \/ CMark(r) \/ CAppr(r) \/ CCommit(r) \/ CRace(r)

SpecConc == InitConc /\ [][NextConc]_vars

\* ------------------------------------------- two interleaved status recomputes
\* The requests are threads of the one process and share the session `model`
\* (one connection, one open transaction): every statement of one request
\* sees the rows the other wrote, committed or not.  One customer.
TagCustomer == CHOOSE c \in Customers : TRUE
TagNames == << "Hibernating-Sell-in", "Hibernating-Sell-out" >>

NewTagReq == [pc |-> "rows", cur |-> "", want |-> {}, prim |-> "", todo |-> <<>>,
              failed |-> FALSE]

\* Before the two requests: one sell-in row captured, a one-line upload
\* posted, any tag rows an earlier recompute left.
InitTags ==
    \E si \in StockSelections, d \in StockSohDates, cfg \in StatusConfigs,
       day \in MaxDate..MaxToday, st \in Statuses, tg \in SUBSET SeqToSet(TagNames) :
       /\ sellin = si
       /\ uploads = << [cust |-> TagCustomer, ps |-> d, pe |-> d, status |-> "Posted",
                        sup |-> 0] >>
       /\ cUploads = uploads
       /\ details = { [upload |-> 1, sku |-> 1, row |-> 1, date |-> d, qty |-> 1,
                       active |-> TRUE] }
       /\ cDetails = details
       /\ nextUid = 2
       /\ ledger = { SiLedgerRow(1, r, r.gross, "", FALSE) : r \in si }
                   \cup { SelloutRow([nextLid |-> 2, uploads |-> uploads], 1, details, x)
                          : x \in details }
       /\ nextLid = 3
       /\ sohHdr = <<>> /\ sohDet = {}
       /\ last = [NoResp EXCEPT !.op = "approve", !.ids = <<1>>, !.posted = {1}]
       /\ preview = NoPreview
       /\ cust = [status |-> [c \in Customers |-> st], tags |-> [c \in Customers |-> tg],
                  today |-> day, cfg |-> cfg]
       /\ conc = [on |-> TRUE, req |-> [r \in Reqs |-> NewTagReq]]

TagKeep == UNCHANGED <<uploads, details, cUploads, cDetails, nextUid, ledger, nextLid,
                       sellin, sohHdr, sohDet, last, preview>>

\* the rows query and, for the customer that is not Disabled, ds_in, ds_out,
\* want_tags and new_primary
TRows(r) ==
    LET c     == TagCustomer
        dsIn  == DaysSince(cust.today, LastMovement(c, "SELLIN"))
        dsOut == DaysSince(cust.today, LastMovement(c, "SELLOUT"))
    IN  /\ conc.req[r].pc = "rows"
        /\ conc' = [conc EXCEPT !.req[r] =
                      IF cust.status[c] = "Disabled"
                      THEN [@ EXCEPT !.pc = "commit", !.cur = "Disabled"]
                      ELSE [@ EXCEPT !.pc = "before", !.cur = cust.status[c],
                                     !.want = WantTags(dsIn, dsOut, cust.cfg),
                                     !.prim = NewPrimary(dsIn, dsOut, cust.cfg.dead)]]
        /\ UNCHANGED cust /\ TagKeep

\* before = set(...); if before != want_tags
TBefore(r) ==
    /\ conc.req[r].pc = "before"
    /\ conc' = [conc EXCEPT !.req[r].pc =
                  IF cust.tags[TagCustomer] # conc.req[r].want THEN "delete" ELSE "primary"]
    /\ UNCHANGED cust /\ TagKeep

\* _sync_tags 1): DELETE the rows not wanted
TDelete(r) ==
    LET want == conc.req[r].want
    IN  /\ conc.req[r].pc = "delete"
        /\ cust' = [cust EXCEPT !.tags[TagCustomer] =
                      IF want # {} THEN { t \in @ : t \in want } ELSE {}]
        /\ conc' = [conc EXCEPT !.req[r].pc = IF want = {} THEN "primary" ELSE "merge",
                                !.req[r].todo = SelectSeq(TagNames, LAMBDA t : t \in want)]
        /\ TagKeep

(* variant: a plain INSERT, which fails on a row that is there *)
InsertTag(tags, t) == [ok |-> t \notin tags, tags |-> tags \cup {t}]

\* MERGE ... WHEN NOT MATCHED THEN INSERT, one statement
MergeTag(tags, t) == [ok |-> TRUE, tags |-> tags \cup {t}]

\* _sync_tags 2): the MERGE of the next wanted tag; a failed statement ends
\* the request with the exception
TMerge(r) ==
    LET m == MergeTag(cust.tags[TagCustomer], Head(conc.req[r].todo))
        rest == Tail(conc.req[r].todo)
    IN  /\ conc.req[r].pc = "merge"
        /\ IF m.ok
           THEN /\ cust' = [cust EXCEPT !.tags[TagCustomer] = m.tags]
                /\ conc' = [conc EXCEPT !.req[r].todo = rest,
                                        !.req[r].pc = IF rest = <<>> THEN "primary"
                                                      ELSE "merge"]
           ELSE /\ conc' = [conc EXCEPT !.req[r].pc = "done", !.req[r].failed = TRUE]
                /\ UNCHANGED cust
        /\ TagKeep

\* if cur_sid != new_primary: UPDATE SP_Customer
TPrimary(r) ==
    /\ conc.req[r].pc = "primary"
    /\ cust' = IF conc.req[r].cur # conc.req[r].prim
               THEN [cust EXCEPT !.status[TagCustomer] = conc.req[r].prim] ELSE cust
    /\ conc' = [conc EXCEPT !.req[r].pc = "commit"]
    /\ TagKeep

\* model.commit() and the response
TCommit(r) ==
    /\ conc.req[r].pc = "commit"
    /\ conc' = [conc EXCEPT !.req[r].pc = "done"]
    /\ SessionEnd(TRUE)
    /\ last' = [NoResp EXCEPT !.op = "recompute"]
    /\ UNCHANGED <<cust, nextUid, ledger, nextLid, sellin, sohHdr, sohDet, preview>>

NextTags ==
    \E r \in Reqs :
       \/ TRows(r) \/ TBefore(r) \/ TDelete(r) \/ TMerge(r) \/ TPrimary(r) \/ TCommit(r)

SpecTags == InitTags /\ [][NextTags]_vars

\* =================================================================== claims
\* The ledger rows a sell-out upload posted
LedgerOf(led, u) == { r \in led : r.upload = u }

\* C1 -- Approving an upload that is already Posted a second time: the call
\* reports the upload as skipped (not posted, not failed), the upload stays
\* Posted and its ledger rows are unchanged; when the call names no other
\* upload, the header and the whole ledger are unchanged (no extra SELLOUT
\* entry).
C1_SecondApproveSkipped ==
    [][ \A u \in UploadIds :
          ( /\ last'.op = "approve" /\ u \in SeqToSet(last'.ids)
            /\ u \in DOMAIN uploads /\ uploads[u].status = "Posted" )
          => /\ u \in last'.skipped /\ u \notin last'.posted /\ u \notin last'.failed
             /\ u \in DOMAIN uploads' /\ uploads'[u].status = "Posted"
             /\ LedgerOf(ledger', u) = LedgerOf(ledger, u)
             /\ SeqToSet(last'.ids) = {u} =>
                   /\ uploads'[u] = uploads[u] /\ ledger' = ledger ]_vars

\* a second approve call of a Posted upload has just been answered
C1_Witness ==
    /\ last.op = "approve" /\ last.posted = {} /\ last.failed = {}
    /\ \E u \in last.skipped :
          /\ last.ids = <<u>> /\ uploads[u].status = "Posted"
          /\ Cardinality(LedgerOf(ledger, u)) = 2

\* C2 -- One approve attempt on a Draft upload either writes exactly one
\* SELLOUT entry per active detail line and moves the header to Posted, or
\* writes nothing to the ledger and leaves the header in Draft.
C2_ApproveAllOrNothing ==
    [][ \A u \in UploadIds :
          ( /\ last'.op = "approve" /\ last'.ids = <<u>>
            /\ u \in DOMAIN uploads /\ uploads[u].status = "Draft" )
          => \/ /\ u \in DOMAIN uploads' /\ uploads'[u].status = "Posted"
                /\ ledger \subseteq ledger'
                /\ \A r \in ledger' \ ledger : r.mtype = "SELLOUT" /\ r.upload = u
                /\ \A d \in ActiveDetails(Store, u) :
                      Cardinality({ r \in ledger' \ ledger : r.key = SoKey(u, d.row) }) = 1
                /\ Cardinality(ledger' \ ledger) = Cardinality(ActiveDetails(Store, u))
             \/ /\ ledger' = ledger
                /\ u \in DOMAIN uploads' /\ uploads'[u].status = "Draft" ]_vars

\* the SELLOUT rows of one detail line of the upload in a ledger
LineEntries(led, u, row) == { r \in led : r.upload = u /\ r.key = SoKey(u, row) }

ConcLive(r) == conc.req[r].pc \notin {"get", "claim", "done"}
ConcPosted(r) == conc.req[r].pc = "done" /\ conc.req[r].res = "posted" /\ ~conc.req[r].failed

C5_IdempotentTupleUnique ==
    \A r1, r2 \in ledger : IdemTuple(r1) = IdemTuple(r2) => r1 = r2

\* two captured rows share article, billing document, sold-to and date, and
\* the run that processed them together had its ledger insert rejected
C5_Witness ==
    /\ last.op \in {"capture", "capture_now", "backfill"} /\ last.failed # {}
    /\ \E r1, r2 \in sellin : r1 # r2 /\ SiKey(r1, FALSE) = SiKey(r2, FALSE)
                               /\ ~KeyExists(ledger, SiKey(r1, FALSE))

\* The pair has ledger entries, all of them ADJUST, and no active snapshot row
AdjustOnly(c, sku) ==
    /\ LedgerRows(c, sku) # {}
    /\ \A r \in LedgerRows(c, sku) : r.mtype = "ADJUST"
    /\ ActiveSnapshots(c, sku) = {}

\* The dates of the customer's ADJUST entries on or before as_of
AdjustDates(c, asOf) ==
    { r.date : r \in { x \in ledger : x.cust = c /\ x.mtype = "ADJUST" /\ x.date <= asOf } }

OneAdjustOnAnchor(c, sku, d) ==
    LET a   == EffectiveAnchorForSku(c, sku, d)
        adj == { r \in LedgerRows(c, sku) : r.mtype = "ADJUST" }
    IN  /\ a # 0
        /\ Cardinality(adj) = 1 /\ \A r \in adj : r.date = a
        /\ ActiveSnapshots(c, sku) = {}
        /\ \A r \in LedgerRows(c, sku) :
              r.mtype \in {"ADJUST", "SELLIN", "SELLOUT"} /\ r.date >= a

\* C7 -- for a pair with one ADJUST on the anchor date, no snapshot and later
\* SELLIN / SELLOUT entries, the balance as of d (the reports' anchored
\* balance and the approvals' _balance_as_of alike) is the signed sum of the
\* pair's entries with anchor <= DocDate <= d; so the balance as of d differs
\* from the balance as of d-1 by exactly the entries dated d.
C7_SignedSumFromAnchor ==
    \A c \in Customers, sku \in SKUs, d \in Dates :
       OneAdjustOnAnchor(c, sku, d) =>
          LET a == EffectiveAnchorForSku(c, sku, d)
          IN  /\ ClosingSohAnchored(c, sku, d) =
                    { SumSigned({ r \in LedgerRows(c, sku) : r.date >= a /\ r.date <= d }) }
              /\ BalanceAsOf(c, sku, d) = ClosingSohAnchored(c, sku, d)
              /\ (d > 1 /\ OneAdjustOnAnchor(c, sku, d - 1)) =>
                    \A b1 \in ClosingSohAnchored(c, sku, d),
                       b0 \in ClosingSohAnchored(c, sku, d - 1) :
                         b1 - b0 = SumSigned({ r \in LedgerRows(c, sku) : r.date = d })

\* ADJUST on the anchor, a SELLIN after it and a SELLOUT on the last day: the
\* balance as of the day before the sell-out holds the receipts only, the
\* balance as of its day holds the sell-out too
C7_Witness ==
    \E c \in Customers, sku \in SKUs :
       /\ OneAdjustOnAnchor(c, sku, MaxDate) /\ OneAdjustOnAnchor(c, sku, MaxDate - 1)
       /\ \E i, o \in LedgerRows(c, sku) :
             /\ i.mtype = "SELLIN" /\ i.date > EffectiveAnchorForSku(c, sku, MaxDate)
             /\ i.date < MaxDate
             /\ o.mtype = "SELLOUT" /\ o.date = MaxDate
             /\ ClosingSohAnchored(c, sku, MaxDate - 1) =
                   { SumQty({ r \in LedgerRows(c, sku) : r.mtype # "SELLOUT" }) }
             /\ ClosingSohAnchored(c, sku, MaxDate) =
                   { SumQty({ r \in LedgerRows(c, sku) : r.mtype # "SELLOUT" }) + o.qty }
             /\ o.qty < 0

\* C8 -- when an anchor resolves and an active snapshot row is dated on the
\* anchor, the balance is that snapshot's quantity plus the signed sum of the
\* non-ADJUST entries dated on the anchor plus the signed sum of the entries
\* with anchor < DocDate <= as_of; the ADJUST entries dated on the anchor are
\* not added.
C8_SnapshotOnAnchor ==
    \A c \in Customers, sku \in SKUs, asOf \in Dates :
       LET a     == EffectiveAnchorForSku(c, sku, asOf)
           snaps == { s \in ActiveSnapshots(c, sku) : s.date = a }
       IN  (a # 0 /\ snaps # {}) =>
              /\ ClosingSohAnchored(c, sku, asOf) # {}
              /\ \A v \in ClosingSohAnchored(c, sku, asOf) : \E s \in snaps :
                    v = s.qty
                        + SumSigned({ r \in LedgerRows(c, sku) :
                                        r.date = a /\ r.mtype # "ADJUST" })
                        + SumSigned({ r \in LedgerRows(c, sku) :
                                        r.date > a /\ r.date <= asOf })

\* an active snapshot on the anchor, with an ADJUST and a SELLIN dated on the
\* anchor and a movement after it: the balance leaves the ADJUST out
C8_Witness ==
    \E c \in Customers, sku \in SKUs, asOf \in Dates :
       LET a == EffectiveAnchorForSku(c, sku, asOf)
       IN  /\ a # 0
           /\ \E s \in ActiveSnapshots(c, sku) : s.date = a /\ s.qty > 0
           /\ \E j, i, l \in LedgerRows(c, sku) :
                 /\ j.mtype = "ADJUST" /\ j.date = a /\ j.qty > 0
                 /\ i.mtype = "SELLIN" /\ i.date = a
                 /\ l.date > a /\ l.date <= asOf
                 /\ LedgerRows(c, sku) = {j, i, l}
                 /\ ClosingSohAnchored(c, sku, asOf) = { j.qty + i.qty + l.qty }

RECURSIVE SumConsumed(_)
\* SUM(consumed_qty) over rows of Allocated
SumConsumed(rows) ==
    IF rows = {} THEN 0
    ELSE LET a == CHOOSE x \in rows : TRUE
         IN a.consumed_qty + SumConsumed(rows \ {a})

\* C10 -- FIFO conservation: for every pair, as-of date and ledger history,
\* the remaining quantity of the live layers plus the consumed quantity of
\* all lots is total_receipts, and every lot has 0 <= consumed <= lot_qty.
C10_FifoConservation ==
    \A c \in Customers, sku \in SKUs, asOf \in Dates :
       /\ SumRemaining(LiveLayers(c, sku, asOf)) + SumConsumed(Allocated(c, sku, asOf))
             = TotalReceipts(c, sku, asOf)
       /\ \A a \in Allocated(c, sku, asOf) :
             0 <= a.consumed_qty /\ a.consumed_qty <= a.lot_qty

\* two lots and issues that use up the first and part of the second
C10_Witness ==
    \E c \in Customers, sku \in SKUs, asOf \in Dates :
       \E a1, a2 \in Allocated(c, sku, asOf) :
          /\ a1.consumed_qty = a1.lot_qty /\ a1.cum_in_prev = 0
          /\ a2.cum_in_prev > 0 /\ a2.consumed_qty > 0 /\ a2.consumed_qty < a2.lot_qty
          /\ a2 \in LiveLayers(c, sku, asOf) /\ a1 \notin LiveLayers(c, sku, asOf)
          /\ TotalIssues(c, sku, asOf) = a1.lot_qty + a2.consumed_qty

\* lot a comes before lot b in the consumption order (DocDate, LedgerID)
LotBefore(a, b) == a.lot_date < b.lot_date \/ (a.lot_date = b.lot_date /\ a.id < b.id)

RECURSIVE SumLotQty(_)
\* SUM(lot_qty) over rows of Allocated
SumLotQty(rows) ==
    IF rows = {} THEN 0
    ELSE LET a == CHOOSE x \in rows : TRUE
         IN a.lot_qty + SumLotQty(rows \ {a})

\* C11 -- FIFO allocation consumes the lots oldest first in (DocDate,
\* LedgerID) order: with `before` the quantity of the lots ahead of a lot, the
\* lot is untouched when total_issues <= before, fully consumed when
\* total_issues >= before + lot_qty, else consumed by total_issues - before;
\* at most one lot is partially consumed, every lot ahead of a touched lot is
\* fully consumed and every lot behind a lot with a remainder is untouched.
C11_OldestFirst ==
    \A c \in Customers, sku \in SKUs, asOf \in Dates :
       LET A  == Allocated(c, sku, asOf)
           ti == TotalIssues(c, sku, asOf)
           partial == { a \in A : 0 < a.consumed_qty /\ a.consumed_qty < a.lot_qty }
       IN  /\ \A a \in A :
                LET before == SumLotQty({ b \in A : LotBefore(b, a) })
                IN  /\ ti <= before => a.consumed_qty = 0
                    /\ ti >= before + a.lot_qty => a.consumed_qty = a.lot_qty
                    /\ (ti > before /\ ti < before + a.lot_qty) =>
                          a.consumed_qty = ti - before
           /\ Cardinality(partial) <= 1
           /\ \A a, b \in A : LotBefore(a, b) =>
                 /\ b.consumed_qty > 0 => a.consumed_qty = a.lot_qty
                 /\ a.consumed_qty < a.lot_qty => b.consumed_qty = 0

\* two lots of one DocDate, the lower LedgerID used up and the higher one
\* partly, and a lot of a later date with a lower LedgerID left untouched
C11_Witness ==
    \E c \in Customers, sku \in SKUs, asOf \in Dates :
       \E a, b, l \in Allocated(c, sku, asOf) :
          /\ a.lot_date = b.lot_date /\ a.id < b.id
          /\ a.consumed_qty = a.lot_qty
          /\ 0 < b.consumed_qty /\ b.consumed_qty < b.lot_qty
          /\ l.lot_date > b.lot_date /\ l.id < a.id /\ l.consumed_qty = 0

\* the pairs some row of the FIFO aging output names
FifoOutputPairs(flt, asOf) ==
    { <<b.cust, b.sku>> : b \in BucketStmt(flt, asOf) }
       \cup { <<a.cust, a.sku>> : a \in LayerStmt(flt, asOf) }

\* the filters that enter the movements window: customer_id and sku_id
WindowFilters ==
    { f \in FifoFilters : /\ f.article_code = 0 /\ f.brand = ""
                          /\ f.min_age = NoAge /\ f.max_age = NoAge
                          /\ ~f.only_positive_soh }

\* C12 (as the specification states it) -- a pair without any ADJUST entry
\* never appears in the FIFO aging output, whatever else the pair or the
\* customer's other SKUs have.
C12_NoAdjustNoOutput ==
    \A c \in Customers, sku \in SKUs, asOf \in Dates :
       (\A r \in LedgerRows(c, sku) : r.mtype # "ADJUST") =>
          <<c, sku>> \notin FifoOutputPairs(NoFifoFilter, asOf)

\* C12 (amended) -- the exclusion is by customer: a pair appears in the FIFO
\* aging output (whatever customer_id and sku_id are given) only if some SKU of its customer has an
\* ADJUST entry dated on or before as_of, and then only if the pair has a
\* receipt dated from the customer's earliest such ADJUST date through as_of.
C12_NoCustomerAdjustNoOutput ==
    \A flt \in WindowFilters, asOf \in Dates :
       \A p \in FifoOutputPairs(flt, asOf) :
          LET adj == { r.date : r \in { x \in ledger : x.cust = p[1] /\ x.mtype = "ADJUST"
                                                       /\ x.date <= asOf } }
          IN  /\ adj # {}
              /\ \E r \in LedgerRows(p[1], p[2]) :
                    r.qty > 0 /\ r.date <= asOf /\ \E d \in adj : d <= r.date

\* a pair with SELLIN entries only, reported as of the last day because
\* another SKU of its customer has an ADJUST entry dated before its receipt
C12_Witness ==
    \E c \in Customers, sku \in SKUs :
       /\ LedgerRows(c, sku) # {}
       /\ \A r \in LedgerRows(c, sku) : r.mtype = "SELLIN" /\ r.date = MaxDate - 1
       /\ <<c, sku>> \in { <<b.cust, b.sku>> : b \in BucketStmt(NoFifoFilter, MaxDate) }
       /\ <<c, sku>> \in { <<a.cust, a.sku>> : a \in LayerStmt(NoFifoFilter, MaxDate) }
       /\ \E r \in ledger : r.cust = c /\ r.sku # sku /\ r.mtype = "ADJUST" /\ r.date < MaxDate - 1

\* C13 -- for a fixed ledger and as_of date the filters (min_age, max_age,
\* only_positive_soh, brand, article, SKU, customer) never change a lot's
\* consumed or remaining quantity: every lot computed under a filter is a lot
\* of the unfiltered computation with the same quantities, the per-lot rows
\* reported are a subset of the unfiltered ones, and a bucket row sums the
\* unfiltered remaining quantities of the pair's lots inside the age range.
C13_FiltersOnlyRemoveRows ==
    \A asOf \in Dates :
       LET base == FifoAllocated(NoFifoFilter, asOf)
           layers == LayerStmt(NoFifoFilter, asOf)
       IN  \A flt \in FifoFilters :
              /\ FifoAllocated(flt, asOf) \subseteq base
              /\ LayerStmt(flt, asOf) \subseteq layers
              /\ \A b \in BucketStmt(flt, asOf) :
                    b.soh_qty = SumRemaining(
                       { a \in base : /\ a.cust = b.cust /\ a.sku = b.sku
                                      /\ a.remaining_qty > 0
                                      /\ flt.min_age # NoAge => asOf - a.lot_date >= flt.min_age
                                      /\ flt.max_age # NoAge => asOf - a.lot_date <= flt.max_age })

\* a partly consumed lot two days old and a newer live layer: max_age = 1
\* leaves the older layer out of the bucket row, the per-lot rows still list
\* it, and the lots keep their quantities
C13_Witness ==
    \E c \in Customers, sku \in SKUs, flt \in FifoFilters :
       /\ flt.max_age = 1 /\ flt.sku_id = sku
       /\ \E r \in LedgerRows(c, sku) : r.qty < 0 /\ r.date = MaxDate
       /\ \E a \in LayerStmt(flt, MaxDate) :
             /\ 0 < a.consumed_qty /\ a.consumed_qty < a.lot_qty
             /\ MaxDate - a.lot_date > flt.max_age
       /\ \E b \in BucketStmt(NoFifoFilter, MaxDate), bf \in BucketStmt(flt, MaxDate) :
             b.cust = c /\ b.sku = sku /\ bf.cust = c /\ bf.sku = sku
             /\ 0 < bf.soh_qty /\ bf.soh_qty < b.soh_qty

\* the active lines of upload u of one SKU that the walk reaches no later
\* than line l: earlier DocumentDate, or the same date and RowNumber <= l's
LinesUpTo(u, l) ==
    { d \in ActiveDetails(Store, u) :
        d.sku = l.sku /\ (d.date < l.date \/ (d.date = l.date /\ d.row <= l.row)) }

\* C14 -- _preview_negatives returns one line per active detail line; with
\* the lines of a SKU taken in (DocumentDate, RowNumber) order, a line's
\* resulting balance is its available_before minus the SellOutQty of itself
\* and of all earlier lines of that SKU; the line is negative exactly when
\* the resulting balance is below zero, and has_negative is true exactly when
\* some line is negative.
C14_PreviewResultingBalance ==
    \A u \in DOMAIN uploads : \A r \in PreviewNegatives(u) :
       /\ { l.row : l \in r.lines } = { d.row : d \in ActiveDetails(Store, u) }
       /\ Cardinality(r.lines) = Cardinality(ActiveDetails(Store, u))
       /\ \A l \in r.lines :
             /\ \E d \in ActiveDetails(Store, u) :
                   d.row = l.row /\ d.sku = l.sku /\ d.date = l.date /\ d.qty = l.qty
             /\ l.res = l.avail - SumQty(LinesUpTo(u, l))
             /\ l.neg <=> l.res < 0
       /\ r.has_neg <=> \E l \in r.lines : l.neg

\* available 3 on a day, two lines of that SKU and day with 1 then 3: the
\* first leaves 2 and is not negative, the second leaves -1 and is negative
C14_Witness ==
    \E u \in DOMAIN uploads : \E r \in PreviewNegatives(u) :
       /\ r.has_neg
       /\ \E l1, l2 \in r.lines :
             /\ l1.sku = l2.sku /\ l1.date = l2.date /\ l1.row < l2.row
             /\ l1.avail = 3 /\ l1.qty = 1 /\ l1.res = 2 /\ ~l1.neg
             /\ l2.avail = 3 /\ l2.qty = 3 /\ l2.res = -1 /\ l2.neg

\* C15 -- within one SKU the cumulative total of _preview_negatives runs over
\* all lines so far, across DocumentDate changes, and starts from zero for
\* every SKU; available_before is the ledger balance as of the line's date,
\* one value for all lines of a (SKU, date), not reduced by the upload's own
\* lines of earlier dates.
C15_CumulativeAcrossDates ==
    \A u \in DOMAIN uploads : \A r \in PreviewNegatives(u) :
       \A l \in r.lines :
          /\ l.cum = SumQty(LinesUpTo(u, l))
          /\ l.avail \in BalanceAsOf(uploads[u].cust, l.sku, l.date)
          /\ \A m \in r.lines : (m.sku = l.sku /\ m.date = l.date) => m.avail = l.avail

\* a SKU with a line on day 1 and a line on day 2: the second line's total
\* holds both, its available_before is the balance unreduced by the first;
\* the other SKU's line starts again from its own quantity
C15_Witness ==
    \E u \in DOMAIN uploads : \E r \in PreviewNegatives(u) :
       \E l1, l2, k \in r.lines :
          /\ l1.sku = l2.sku /\ l1.date < l2.date /\ l1.row > l2.row
          /\ l1.cum = l1.qty /\ l2.cum = l1.qty + l2.qty
          /\ l1.avail > 0 /\ l2.avail = l1.avail
          /\ k.sku # l1.sku /\ k.date = l2.date /\ k.cum = k.qty /\ k.qty > 0

\* C16 -- the available_before of the preview, _balance_as_of(customer, SKU,
\* date), equals the anchored balance of the balance engine for the same
\* customer, SKU and date in every ledger and snapshot state.
C16_PreviewBalanceIsEngineBalance ==
    \A c \in Customers, sku \in SKUs, d \in Dates :
       BalanceAsOf(c, sku, d) = ClosingSohAnchored(c, sku, d)

\* C17 -- approve_uploads posts an upload (writes its SELLOUT entries and
\* sets it Posted) only if no line of its negative preview, computed on the
\* state before the approval, is negative.
C17_NegativeUploadNotPosted ==
    [][ \A u \in DOMAIN uploads :
          ( /\ u \in DOMAIN uploads'
            /\ uploads[u].status # "Posted"
            /\ uploads'[u].status = "Posted" )
          => \A r \in PreviewNegatives(u) : ~r.has_neg ]_vars

\* the line sets _preview_negatives can return for upload u
PreviewResults(u) == { r.lines : r \in PreviewNegatives(u) }

C20_DeadOnlyWhenBothIdle ==
    [][ (last'.op = "recompute" /\ cust'.today = cust.today)
        => \A c \in Customers :
              cust.status[c] # "Disabled"
              => LET idle(mtype) ==
                        \A r \in ledger :
                           (r.cust = c /\ r.mtype = mtype)
                              => cust.today - r.date > cust.cfg.dead
                 IN  /\ cust'.status[c] \in {"DEAD", "Active"}
                     /\ cust'.status[c] = "DEAD" <=> (idle("SELLIN") /\ idle("SELLOUT")) ]_vars

\* dead threshold 2, hibernating thresholds 1: the last sell-in is 2 days old,
\* the last sell-out 3 days old; the recompute gave the sell-in tag and left
\* the customer Active
C20_Witness ==
    /\ last.op = "recompute"
    /\ \E c \in Customers :
          /\ cust.cfg.dead = 2 /\ cust.cfg.hibIn = 1
          /\ LastMovement(c, "SELLIN") # 0 /\ LastMovement(c, "SELLOUT") # 0
          /\ cust.today - LastMovement(c, "SELLIN") = 2
          /\ cust.today - LastMovement(c, "SELLOUT") = 3
          /\ cust.status[c] = "Active"
          /\ "Hibernating-Sell-in" \in cust.tags[c]

\* C21 -- after recompute_statuses the tag set of a customer that is not
\* Disabled holds the sell-in tag exactly when no SELLIN entry is dated within
\* the sell-in hibernation threshold before today, the sell-out tag exactly
\* when no SELLOUT entry is dated within the sell-out threshold, and nothing
\* else, whatever the tags were before and whatever the primary status is.
C21_TagsAreWantedTags ==
    [][ (last'.op = "recompute" /\ cust'.today = cust.today)
        => \A c \in Customers :
              cust.status[c] # "Disabled"
              => LET idle(mtype, days) ==
                        \A r \in ledger :
                           (r.cust = c /\ r.mtype = mtype) => cust.today - r.date > days
                 IN  /\ "Hibernating-Sell-in" \in cust'.tags[c]
                           <=> idle("SELLIN", cust.cfg.hibIn)
                     /\ "Hibernating-Sell-out" \in cust'.tags[c]
                           <=> idle("SELLOUT", cust.cfg.hibOut)
                     /\ cust'.tags[c] \subseteq
                           {"Hibernating-Sell-in", "Hibernating-Sell-out"} ]_vars

\* dead threshold 1, hibernating thresholds 2, last sell-in and last sell-out
\* both 2 days old: the recompute made the customer DEAD and left no tag
C21_Witness ==
    /\ last.op = "recompute"
    /\ \E c \in Customers :
          /\ cust.cfg.dead = 1 /\ cust.cfg.hibIn = 2 /\ cust.cfg.hibOut = 2
          /\ LastMovement(c, "SELLIN") # 0 /\ LastMovement(c, "SELLOUT") # 0
          /\ cust.today - LastMovement(c, "SELLIN") = 2
          /\ cust.today - LastMovement(c, "SELLOUT") = 2
          /\ cust.status[c] = "DEAD"
          /\ cust.tags[c] = {}

C23_DuplicateKeySkipsOneInsert ==
    [][ last'.op = "capture"
        => \A si \in sellin' \ sellin :
              (ResolveCustomerId(si.soldto) # 0 /\ ResolveSkuId(si.article) # 0)
              => /\ si.gross > 0 => KeyExists(ledger', SiKey(si, FALSE))
                 /\ si.ret # 0 => KeyExists(ledger', SiKey(si, TRUE)) ]_vars

\* C24 -- after any sequence of SOH snapshot uploads at most one snapshot
\* detail row is active for a (customer, brand, SKU, date), also when an
\* uploaded file lists a SKU on more than one row.
C24_OneActiveSnapshotRow ==
    \A d, e \in sohDet :
       ( /\ d.active /\ e.active
         /\ sohHdr[d.hdr].cust = sohHdr[e.hdr].cust
         /\ sohHdr[d.hdr].brand = sohHdr[e.hdr].brand
         /\ d.sku = e.sku /\ d.date = e.date )
       => d = e

\* C25 -- the ledger row an SOH snapshot upload writes for a file row carries
\* new_qty - old_qty, old_qty being the quantity of the snapshot row that was
\* active for the same (customer, brand, SKU, date) before the upload (0 when
\* there was none): a snapshot of Q over an active P writes Q - P.
C25_LedgerCarriesDelta ==
    [][ last'.op = "soh_upload"
        => \A r \in ledger' \ ledger :
              \E d \in sohDet' \ sohDet :
                 /\ d.hdr = r.key.a /\ d.row = r.key.b /\ d.sku = r.sku
                 /\ r.qty = d.qty - GetPriorActiveQtyForDay(sohHdr, sohDet, r.cust,
                                                            sohHdr'[d.hdr].brand, d.sku, d.date)
      ]_vars

\* C26 -- Posted is terminal: no upload, submit, approve or reject changes
\* the status of an upload that is Posted, in the session and in the
\* committed table (an overlapping new upload sets its SupersededByUploadID
\* and leaves the status), and the committed status of an upload becomes
\* Posted or Rejected only from Draft: Draft in the session, or Draft in the
\* committed table when the request first rolls the session back to it.
C26_PostedIsTerminal ==
    [][ /\ \A u \in DOMAIN uploads :
              uploads[u].status = "Posted"
                 => (u \in DOMAIN uploads' /\ uploads'[u].status = "Posted")
        /\ \A u \in DOMAIN cUploads :
              cUploads[u].status = "Posted"
                 => (u \in DOMAIN cUploads' /\ cUploads'[u].status = "Posted")
        /\ \A u \in DOMAIN cUploads' :
              ( /\ cUploads'[u].status \in {"Posted", "Rejected"}
                /\ (u \in DOMAIN cUploads => cUploads[u].status # cUploads'[u].status) )
                 => \/ u \in DOMAIN uploads /\ uploads[u].status = "Draft"
                    \/ u \in DOMAIN cUploads /\ cUploads[u].status = "Draft" ]_vars

\* a Posted upload that a later overlapping upload superseded and that a
\* reject request then named: it is still Posted
C26_Witness ==
    /\ last.op = "reject"
    /\ \E u \in DOMAIN uploads :
          /\ \E i \in DOMAIN last.ids : last.ids[i] = u
          /\ uploads[u].status = "Posted"
          /\ uploads[u].sup # 0
          /\ LedgerOf(ledger, u) # {}

\* C27 -- Posting is never left behind: once the approve requests are
\* through (posted, skipped or failed), the committed status of the upload
\* is not Posting.
C27_PostingNeverLeftBehind ==
    (conc.on /\ \A r \in Reqs : conc.req[r].pc = "done")
       => cUploads[ConcUpload].status # "Posting"

\* C28 -- for each customer, SKU and date the SELLOUT quantity of the ledger
\* is the SellOutQty of the active lines of the Posted uploads (committed
\* tables); a replacement file does not count a period twice.
C28_LedgerMatchesActivePostedLines ==
    \A c \in Customers, k \in SKUs, d \in Dates :
        0 - SumQty({ r \in ledger : r.mtype = "SELLOUT" /\ r.cust = c
                                      /\ r.sku = k /\ r.date = d })
          = SumQty({ l \in cDetails : /\ l.active /\ l.sku = k /\ l.date = d
                                      /\ cUploads[l.upload].cust = c
                                      /\ cUploads[l.upload].status = "Posted" })

\* C29 -- the SKU anchor of a pair is never later than the customer anchor
\* of its customer, so whenever an anchor exists the effective anchor is the
\* customer anchor: the latest ADJUST date of any SKU of the customer on or
\* before as_of.
C29_SkuAnchorNotAfterCustomerAnchor ==
    \A c \in Customers, sku \in SKUs, asOf \in Dates :
       LET ca == AnchorAdjustDateCustomer(c, asOf)
           sa == AnchorAdjustDateSkuOnly(c, sku, asOf)
           ea == EffectiveAnchorForSku(c, sku, asOf)
           any == { r \in ledger : r.cust = c /\ r.mtype = "ADJUST" /\ r.date <= asOf }
       IN  /\ sa <= ca
           /\ (sa # 0 \/ ca # 0) =>
                 /\ ea = ca
                 /\ \E r \in any : r.date = ea
                 /\ \A r \in any : r.date <= ea

\* one pair whose SKU anchor is earlier than the customer anchor at one
\* as_of and equal to it at another, next to an as_of before every ADJUST
\* row of the customer (no anchor there)
C29_Witness ==
    \E c \in Customers, sku \in SKUs, a1 \in Dates, a2 \in Dates :
       /\ AnchorAdjustDateSkuOnly(c, sku, a1) # 0
       /\ AnchorAdjustDateSkuOnly(c, sku, a1) < AnchorAdjustDateCustomer(c, a1)
       /\ EffectiveAnchorForSku(c, sku, a1) = AnchorAdjustDateCustomer(c, a1)
       /\ AnchorAdjustDateSkuOnly(c, sku, a2) # 0
       /\ AnchorAdjustDateSkuOnly(c, sku, a2) = AnchorAdjustDateCustomer(c, a2)
       /\ \E a0 \in Dates : EffectiveAnchorForSku(c, sku, a0) = 0

\* C30 -- with no age or positivity filter the FIFO soh_qty of a pair is
\* max(0, total_receipts - total_issues) over [the customer's earliest ADJUST
\* date, as_of]: a pair with more receipts than issues has one bucket row
\* with the difference, and a pair whose issues reach its receipts has no
\* bucket row and no lot row.
C30_FifoSohIsReceiptsMinusIssues ==
    \A c \in Customers, sku \in SKUs, asOf \in Dates :
       LET adj  == { r.date : r \in { x \in ledger : x.cust = c /\ x.mtype = "ADJUST"
                                                     /\ x.date <= asOf } }
           win  == { r \in ledger : /\ r.cust = c /\ r.sku = sku /\ r.date <= asOf
                                    /\ \E d \in adj : d <= r.date }
           rec  == SumQty({ r \in win : r.qty > 0 })
           iss  == 0 - SumQty({ r \in win : r.qty < 0 })
           bs   == { b \in BucketStmt(NoFifoFilter, asOf) : b.cust = c /\ b.sku = sku }
           ls   == { l \in LayerStmt(NoFifoFilter, asOf) : l.cust = c /\ l.sku = sku }
       IN  IF rec > iss
           THEN /\ Cardinality(bs) = 1
                /\ \A b \in bs : b.soh_qty = rec - iss
                /\ ls # {}
           ELSE bs = {} /\ ls = {}

\* one pair whose issues reach its receipts (both positive) and that is
\* reported nowhere, next to an as_of at which a partly consumed pair is
\* reported with the difference
C30_Witness ==
    \E c \in Customers, sku \in SKUs, a1 \in Dates, a2 \in Dates :
       /\ TotalReceipts(c, sku, a1) > 0
       /\ TotalIssues(c, sku, a1) >= TotalReceipts(c, sku, a1)
       /\ \A b \in BucketStmt(NoFifoFilter, a1) : ~(b.cust = c /\ b.sku = sku)
       /\ \E k \in SKUs :
             /\ TotalIssues(c, k, a2) > 0
             /\ TotalReceipts(c, k, a2) > TotalIssues(c, k, a2)
             /\ \E b \in BucketStmt(NoFifoFilter, a2) :
                   /\ b.cust = c /\ b.sku = k
                   /\ b.soh_qty = TotalReceipts(c, k, a2) - TotalIssues(c, k, a2)

\* C9 -- effective_anchor(customer, sku, as_of) is the later of the customer
\* anchor and the SKU anchor when both exist, the one that exists when only
\* one exists, None (0) when neither exists, and never a date after as_of.
C9_EffectiveAnchor ==
    \A c \in Customers, sku \in SKUs, asOf \in Dates :
       LET cd == AdjustDates(c, asOf)
           sd == { r.date : r \in { x \in LedgerRows(c, sku) :
                                      x.mtype = "ADJUST" /\ x.date <= asOf } }
           ea == EffectiveAnchorForSku(c, sku, asOf)
       IN  /\ ea <= asOf
           /\ cd \cup sd = {} => ea = 0
           /\ cd \cup sd # {} => ea \in cd \cup sd /\ \A d \in cd \cup sd : d <= ea

\* both anchors exist and differ, and the later one (the customer's) is returned
C9_Witness ==
    \E c \in Customers, sku \in SKUs, asOf \in Dates :
       /\ AnchorAdjustDateSkuOnly(c, sku, asOf) # 0
       /\ AnchorAdjustDateSkuOnly(c, sku, asOf) < AnchorAdjustDateCustomer(c, asOf)
       /\ EffectiveAnchorForSku(c, sku, asOf) = AnchorAdjustDateCustomer(c, asOf)
       /\ \E sku2 \in SKUs : AnchorAdjustDateSkuOnly(c, sku2, 1) = 0
                              /\ EffectiveAnchorForSku(c, sku2, 1) # 0

====
